---- MODULE Spec2Model ----
(***************************************************************************)
(* Model of pensieve: the conditional applier (operation_applier.rs), the  *)
(* operation model (binlog_operation.rs), the timestamp normaliser, the    *)
(* snapshot cursor and the text change-log parser.                         *)
(*                                                                         *)
(* The embedded store holds one table.  A table is a bag of rows; a row is *)
(* a tuple of store values, each written as the text CAST(col AS VARCHAR)  *)
(* yields, or NullValue for SQL NULL.  Operations carry SQL literals.      *)
(***************************************************************************)
EXTENDS Integers, Sequences, FiniteSets, TLC

VARIABLES
    schema,             \* PRAGMA table_info of the snapshot table: [columns, types]
    store,              \* the table's rows: a bag (row -> number of copies)
    calls,              \* applier calls made so far, oldest first (history)
    operations,         \* the operation stream (Vec<BinlogOperation>), index 0 first
    current_position,   \* SnapshotManager::current_position (0-based index)
    hist0,              \* the table before operations[0] took place (history)
    lastNav,            \* the latest navigation call, if any (history)
    navCount,           \* number of navigation calls made
    norm,               \* TimestampNormaliser::normalize: its locals and progress
    parser              \* TextBinlogParser::parse_file: its locals and progress

applierVars == <<schema, store, calls>>
cursorVars == <<operations, current_position, hist0, lastNav, navCount>>
vars == <<schema, store, calls, operations, current_position, hist0, lastNav, navCount,
          norm, parser>>

-----------------------------------------------------------------------------
(* Bounds of the model *)

\* rows in the store when the applier is constructed
MaxInitRows == 2
\* consecutive apply_operation_conditionally calls that are followed
MaxCalls == 2
\* operations in a stream
MaxOps == 3
\* rows in the table before the first operation of a stream
MaxHistRows == 0
\* navigation calls made on a cursor
MaxNavCalls == 2
\* lines of a change-log file
MaxLines == 4
\* times invert is applied in a row
MaxInverts == 2
\* operations in a stream whose window is looked at
MaxWindowOps == 10
\* lines of a change-log file made of transaction marks and statement lines only
MaxTxLines == 7
\* items of a change-log file in which a read may fail or a table be unknown
MaxReadLines == 5
\* operations in a stream whose timestamps may be missing, unparsable or out of order
MaxFrameOps == 5

-----------------------------------------------------------------------------
(* Options and small helpers *)

None == << >>
Some(x) == <<x>>
IsSome(o) == Len(o) = 1
Unwrap(o) == o[1]

Min(a, b) == IF a < b THEN a ELSE b
Range(s) == {s[i] : i \in DOMAIN s}

-----------------------------------------------------------------------------
(* The store: values, literals and rows *)

TableName == "users"
DatabaseName == "main"

\* SQL NULL as row.get::<Option<String>> returns it
NullValue == "<null>"

\* The tables a snapshot may hold: an id column and one column of each kind
\* fetch_current_row tells apart (quoted, boolean, passed through).
Schemas ==
    { [columns |-> <<"id", "name">>,      types |-> <<"INTEGER", "VARCHAR">>],
      [columns |-> <<"id", "is_active">>, types |-> <<"INTEGER", "BOOLEAN">>],
      [columns |-> <<"id", "balance">>,   types |-> <<"INTEGER", "DECIMAL(10,2)">>] }

\* The literals an operation image may carry for a column of type t.
Literals(t) ==
    CASE t = "INTEGER"       -> {"1", "2", "NULL"}
      [] t = "VARCHAR"       -> {"'a'", "'b'", "NULL"}
      [] t = "BOOLEAN"       -> {"1", "0", "NULL"}
      [] t = "DECIMAL(10,2)" -> {"1.50", "1.5", "NULL"}

\* The value the store gives a literal in a column of type t (INSERT values,
\* SET values and the right-hand side of a WHERE comparison).
StoreValue(lit, t) ==
    IF lit = "NULL" THEN NullValue
    ELSE CASE t = "VARCHAR"       -> (CHOOSE v \in {"a", "b"} : "'" \o v \o "'" = lit)
           [] t = "BOOLEAN"       -> (IF lit = "1" THEN "true" ELSE "false")
           [] t = "DECIMAL(10,2)" -> (IF lit = "1.5" THEN "1.50" ELSE lit)
           [] OTHER               -> lit

\* str::contains on the type names of the model
TypeContains(t, sub) ==
    sub \in (CASE t = "VARCHAR" -> {"VARCHAR", "CHAR"}
               [] t = "BOOLEAN" -> {"BOOL"}
               [] OTHER         -> {})

\* fetch_current_row's re-literalisation of one fetched column
reliteralise(string_val, col_type) ==
    IF string_val = NullValue THEN "NULL"
    ELSE IF \/ TypeContains(col_type, "VARCHAR") \/ TypeContains(col_type, "TEXT")
            \/ TypeContains(col_type, "CHAR") \/ TypeContains(col_type, "TIMESTAMP")
            \/ TypeContains(col_type, "DATE")
         THEN "'" \o string_val \o "'"
    ELSE IF TypeContains(col_type, "BOOL")
         THEN IF string_val = "true" \/ string_val = "t" THEN "1"
              ELSE IF string_val = "false" \/ string_val = "f" THEN "0"
              ELSE string_val
    ELSE string_val

\* Images (vectors of literals) over a schema, and the rows they denote
Images(sch) == {<<a, b>> : a \in Literals(sch.types[1]), b \in Literals(sch.types[2])}
RowOf(image, sch) == [i \in 1..Len(image) |-> StoreValue(image[i], sch.types[i])]
StoreRows(sch) == {RowOf(im, sch) : im \in Images(sch)}

EmptyBag == << >>
BagAdd(b, r, n) ==
    IF n = 0 THEN b
    ELSE [x \in DOMAIN b \cup {r} |->
            (IF x \in DOMAIN b THEN b[x] ELSE 0) + (IF x = r THEN n ELSE 0)]
BagOfSeq(s) == [r \in Range(s) |-> Cardinality({i \in DOMAIN s : s[i] = r})]
RECURSIVE BagSize(_)
BagSize(b) ==
    IF DOMAIN b = {} THEN 0
    ELSE LET r == CHOOSE x \in DOMAIN b : TRUE
         IN b[r] + BagSize([x \in DOMAIN b \ {r} |-> b[x]])

-----------------------------------------------------------------------------
(* binlog_operation.rs: the operation model *)

OperationTypes == {"Insert", "Update", "Delete"}

BinlogOperation(kind, cols, before, after, ts, pos) ==
    [ timestamp      |-> ts,
      position       |-> pos,
      operation_type |-> kind,
      table_name     |-> TableName,
      database       |-> DatabaseName,
      columns        |-> cols,
      before_values  |-> before,
      after_values   |-> after ]

\* An invert whose Update arm returns the operation as it is
invert_update_unswapped(op) ==
    CASE op.operation_type = "Insert" ->
            [op EXCEPT !.operation_type = "Delete",
                       !.before_values = op.after_values,
                       !.after_values = None]
      [] op.operation_type = "Update" -> op
      [] op.operation_type = "Delete" ->
            [op EXCEPT !.operation_type = "Insert",
                       !.before_values = None,
                       !.after_values = op.before_values]

\* An invert whose Insert arm leaves the image behind
invert_drops_image(op) ==
    CASE op.operation_type = "Insert" ->
            [op EXCEPT !.operation_type = "Delete",
                       !.before_values = None,
                       !.after_values = None]
      [] op.operation_type = "Update" ->
            [op EXCEPT !.before_values = op.after_values,
                       !.after_values = op.before_values]
      [] op.operation_type = "Delete" ->
            [op EXCEPT !.operation_type = "Insert",
                       !.before_values = None,
                       !.after_values = op.before_values]

invert(op) ==
    CASE op.operation_type = "Insert" ->
            [op EXCEPT !.operation_type = "Delete",
                       !.before_values = op.after_values,
                       !.after_values = None]
      [] op.operation_type = "Update" ->
            [op EXCEPT !.before_values = op.after_values,
                       !.after_values = op.before_values]
      [] op.operation_type = "Delete" ->
            [op EXCEPT !.operation_type = "Insert",
                       !.before_values = None,
                       !.after_values = op.before_values]

\* The operations the parser can produce for a table with schema sch, unstamped
Operations(sch) ==
    {BinlogOperation("Insert", sch.columns, None, Some(a), None, None) : a \in Images(sch)}
    \cup {BinlogOperation("Delete", sch.columns, Some(b), None, None, None) : b \in Images(sch)}
    \cup {BinlogOperation("Update", sch.columns, Some(b), Some(a), None, None) :
            b \in Images(sch), a \in Images(sch)}

-----------------------------------------------------------------------------
(* operation_applier.rs *)

\* get_table_schema: the cached PRAGMA table_info answer; empty for a table
\* the snapshot does not hold
get_table_schema(sch, table_name) ==
    IF table_name = TableName THEN sch ELSE [columns |-> << >>, types |-> << >>]

\* A where_parts that keeps the columns whose value is NULL
where_parts_keeps_nulls(columns, values) ==
    [i \in 1..Min(Len(columns), Len(values)) |-> <<columns[i], values[i]>>]

\* columns.iter().zip(values).filter(val != "NULL"): the "col = val" parts
where_parts(columns, values) ==
    SelectSeq([i \in 1..Min(Len(columns), Len(values)) |-> <<columns[i], values[i]>>],
              LAMBDA p : p[2] # "NULL")

\* generate_sql: the statement, kept structured instead of joined into text
generate_sql(op) ==
    CASE op.operation_type = "Insert" ->
            [ verb    |-> "INSERT",
              table   |-> op.table_name,
              columns |-> op.columns,
              values  |-> Unwrap(op.after_values) ]
      [] op.operation_type = "Update" ->
            [ verb        |-> "UPDATE",
              table       |-> op.table_name,
              set_parts   |-> [i \in 1..Min(Len(op.columns), Len(Unwrap(op.after_values)))
                                 |-> <<op.columns[i], Unwrap(op.after_values)[i]>>],
              where_parts |-> where_parts(op.columns, Unwrap(op.before_values)) ]
      [] op.operation_type = "Delete" ->
            [ verb        |-> "DELETE",
              table       |-> op.table_name,
              where_parts |-> where_parts(op.columns, Unwrap(op.before_values)) ]

RECURSIVE join(_, _)
\* [String]::join(sep)
join(strings, sep) ==
    IF strings = << >> THEN ""
    ELSE IF Len(strings) = 1 THEN strings[1]
    ELSE strings[1] \o sep \o join(Tail(strings), sep)

\* format!("{} = {}", col, val) on each part
assignments(parts) == [k \in 1..Len(parts) |-> parts[k][1] \o " = " \o parts[k][2]]

\* The text generate_sql returns for the statement sql
sql_text(sql) ==
    CASE sql.verb = "INSERT" ->
            "INSERT INTO " \o sql.table \o " (" \o join(sql.columns, ", ")
                \o ") VALUES (" \o join(sql.values, ", ") \o ");"
      [] sql.verb = "UPDATE" ->
            IF sql.where_parts = << >>
            THEN "UPDATE " \o sql.table \o " SET "
                    \o join(assignments(sql.set_parts), ", ") \o ";"
            ELSE "UPDATE " \o sql.table \o " SET "
                    \o join(assignments(sql.set_parts), ", ")
                    \o " WHERE " \o join(assignments(sql.where_parts), " AND ") \o ";"
      [] sql.verb = "DELETE" ->
            IF sql.where_parts = << >>
            THEN "DELETE FROM " \o sql.table \o ";"
            ELSE "DELETE FROM " \o sql.table
                    \o " WHERE " \o join(assignments(sql.where_parts), " AND ") \o ";"

\* The store's evaluation of "col = lit AND ..." on one row (NULL never matches)
ColumnIndex(sch, col) == CHOOSE i \in 1..Len(sch.columns) : sch.columns[i] = col
RowMatches(row, sch, parts) ==
    \A k \in 1..Len(parts) :
        LET i == ColumnIndex(sch, parts[k][1])
        IN  /\ row[i] # NullValue
            /\ StoreValue(parts[k][2], sch.types[i]) # NullValue
            /\ row[i] = StoreValue(parts[k][2], sch.types[i])

\* The row a statement's column list and literals denote; unlisted columns are NULL
AssignedRow(row, sch, cols, vals) ==
    [i \in 1..Len(sch.columns) |->
        IF \E k \in 1..Min(Len(cols), Len(vals)) : cols[k] = sch.columns[i]
        THEN StoreValue(vals[CHOOSE k \in 1..Min(Len(cols), Len(vals)) :
                                cols[k] = sch.columns[i]], sch.types[i])
        ELSE row[i]]

RECURSIVE BagAddAll(_, _, _, _)
\* b plus, for every row r of rs, from[r] copies of img[r]
BagAddAll(b, rs, from, img) ==
    IF rs = {} THEN b
    ELSE LET r == CHOOSE x \in rs : TRUE
         IN BagAddAll(BagAdd(b, img[r], from[r]), rs \ {r}, from, img)

\* conn.execute(sql): the table after the statement
execute(st, sch, sql) ==
    CASE sql.verb = "INSERT" ->
            BagAdd(st, AssignedRow([i \in 1..Len(sch.columns) |-> NullValue],
                                   sch, sql.columns, sql.values), 1)
      [] sql.verb = "UPDATE" ->
            LET hit  == {r \in DOMAIN st : RowMatches(r, sch, sql.where_parts)}
                cols == [k \in 1..Len(sql.set_parts) |-> sql.set_parts[k][1]]
                vals == [k \in 1..Len(sql.set_parts) |-> sql.set_parts[k][2]]
                img  == [r \in hit |-> AssignedRow(r, sch, cols, vals)]
            IN  BagAddAll([r \in DOMAIN st \ hit |-> st[r]], hit, st, img)
      [] sql.verb = "DELETE" ->
            LET hit == {r \in DOMAIN st : RowMatches(r, sch, sql.where_parts)}
            IN  [r \in DOMAIN st \ hit |-> st[r]]

\* A fetch_current_row in which the NULL columns are kept in the WHERE clause
fetch_current_row_keeps_nulls(st, sch, table, columns, identifying_values) ==
    LET parts == [i \in 1..Min(Len(columns), Len(identifying_values)) |->
                    <<columns[i], identifying_values[i]>>]
        types == get_table_schema(sch, table).types
        hit   == {r \in DOMAIN st : RowMatches(r, sch, parts)}
    IN  IF Len(parts) = 0 THEN {None}
        ELSE IF Len(types) = 0 THEN {None}
        ELSE IF hit = {} THEN {None}
        ELSE {Some([i \in 1..Len(columns) |->
                        reliteralise(r[ColumnIndex(sch, columns[i])],
                                     IF i <= Len(types) THEN types[i] ELSE "")]) :
                r \in hit}

\* A fetch_current_row that queries without a WHERE clause when the image is
\* NULL throughout
fetch_current_row_without_where(st, sch, table, columns, identifying_values) ==
    LET parts == where_parts(columns, identifying_values)
        types == get_table_schema(sch, table).types
        hit   == {r \in DOMAIN st : RowMatches(r, sch, parts)}
    IN  IF Len(types) = 0 THEN {None}
        ELSE IF hit = {} THEN {None}
        ELSE {Some([i \in 1..Len(columns) |->
                        reliteralise(r[ColumnIndex(sch, columns[i])],
                                     IF i <= Len(types) THEN types[i] ELSE "")]) :
                r \in hit}

\* fetch_current_row: every answer SELECT ... LIMIT 1 may give, re-literalised
fetch_current_row(st, sch, table, columns, identifying_values) ==
    LET parts == where_parts(columns, identifying_values)
        types == get_table_schema(sch, table).types
        hit   == {r \in DOMAIN st : RowMatches(r, sch, parts)}
    IN  IF Len(parts) = 0 THEN {None}
        ELSE IF Len(types) = 0 THEN {None}
        ELSE IF hit = {} THEN {None}
        ELSE {Some([i \in 1..Len(columns) |->
                        reliteralise(r[ColumnIndex(sch, columns[i])],
                                     IF i <= Len(types) THEN types[i] ELSE "")]) :
                r \in hit}

\* A should_apply in which an Insert is applied without comparing the probed row
should_apply_insert_unchecked(st, sch, op) ==
    IF op.operation_type = "Insert"
    THEN {[current |-> c, result |-> TRUE] :
            c \in fetch_current_row(st, sch, op.table_name, op.columns,
                                    Unwrap(op.after_values))}
    ELSE {[current |-> c,
           result  |-> IF c = None THEN FALSE ELSE Unwrap(c) = Unwrap(op.before_values)] :
            c \in fetch_current_row(st, sch, op.table_name, op.columns,
                                    Unwrap(op.before_values))}

\* should_apply: the decision for each row the probe may return
should_apply(st, sch, op) ==
    IF op.operation_type = "Insert"
    THEN {[current |-> c,
           result  |-> IF c = None THEN TRUE ELSE Unwrap(c) # Unwrap(op.after_values)] :
            c \in fetch_current_row(st, sch, op.table_name, op.columns,
                                    Unwrap(op.after_values))}
    ELSE {[current |-> c,
           result  |-> IF c = None THEN FALSE ELSE Unwrap(c) = Unwrap(op.before_values)] :
            c \in fetch_current_row(st, sch, op.table_name, op.columns,
                                    Unwrap(op.before_values))}

\* conn.execute(sql) returns an error: the statement names a table the
\* snapshot does not hold
execute_fails(sch, sql) == get_table_schema(sch, sql.table).types = << >>

\* An apply_operation_conditionally that turns a failed statement into a skip
apply_swallows_error(st, sch, op) ==
    {[op       |-> op,
      current  |-> d.current,
      should   |-> d.result,
      executed |-> IF d.result /\ ~execute_fails(sch, generate_sql(op))
                   THEN Some(generate_sql(op)) ELSE None,
      applied  |-> d.result /\ ~execute_fails(sch, generate_sql(op)),
      ok       |-> TRUE,
      before   |-> st,
      after    |-> IF d.result /\ ~execute_fails(sch, generate_sql(op))
                   THEN execute(st, sch, generate_sql(op)) ELSE st] :
        d \in should_apply(st, sch, op)}

\* apply_operation_conditionally: every outcome of one call.  executed is the
\* statement handed to conn.execute, ok is FALSE when the call returned Err,
\* applied is TRUE when it returned Ok(true)
apply_operation_conditionally(st, sch, op) ==
    {[op       |-> op,
      current  |-> d.current,
      should   |-> d.result,
      executed |-> IF d.result THEN Some(generate_sql(op)) ELSE None,
      applied  |-> d.result /\ ~execute_fails(sch, generate_sql(op)),
      ok       |-> ~(d.result /\ execute_fails(sch, generate_sql(op))),
      before   |-> st,
      after    |-> IF d.result /\ ~execute_fails(sch, generate_sql(op))
                   THEN execute(st, sch, generate_sql(op)) ELSE st] :
        d \in should_apply(st, sch, op)}

-----------------------------------------------------------------------------
(* The applier on its own: a store, and calls in the pattern of               *)
(* test_bidirectional_integration (apply, apply again, apply inverted)        *)

InitStores(sch) ==
    {BagOfSeq(s) : s \in UNION {[1..n -> StoreRows(sch)] : n \in 0..MaxInitRows}}

InitApplier ==
    /\ schema \in Schemas
    /\ store \in InitStores(schema)
    /\ calls = << >>
    /\ operations = << >>
    /\ current_position = 0
    /\ hist0 = EmptyBag
    /\ lastNav = None
    /\ navCount = 0
    /\ norm = None
    /\ parser = None

Call(op) ==
    /\ Len(calls) < MaxCalls
    /\ \E out \in apply_operation_conditionally(store, schema, op) :
        /\ store' = out.after
        /\ calls' = Append(calls, out)
    /\ UNCHANGED <<schema, cursorVars, norm, parser>>

ApplyFirst ==
    /\ calls = << >>
    /\ \E op \in Operations(schema) : Call(op)

ApplyAgain ==
    /\ calls # << >>
    /\ Call(calls[Len(calls)].op)

ApplyInverted ==
    /\ calls # << >>
    /\ Call(invert(calls[Len(calls)].op))

NextApplier == ApplyFirst \/ ApplyAgain \/ ApplyInverted

SpecApplier == InitApplier /\ [][NextApplier]_vars

\* A table the snapshot does not hold
OtherTableName == "orders"

\* The operations of a table the snapshot does not hold
OtherTableOperations(sch) ==
    {[op EXCEPT !.table_name = OtherTableName] : op \in Operations(sch)}

\* The first call is given an operation on a table the snapshot does not hold
ApplyOtherTable ==
    /\ calls = << >>
    /\ \E op \in OtherTableOperations(schema) : Call(op)

NextMismatch == ApplyFirst \/ ApplyOtherTable \/ ApplyAgain \/ ApplyInverted

\* The applier given operations that may not match the store's schema
SpecMismatch == InitApplier /\ [][NextMismatch]_vars

-----------------------------------------------------------------------------
(* The change log as a history of the table: what each row event did to the  *)
(* source table when it was logged                                           *)

BagRemoveOne(b, r) ==
    [x \in (IF b[r] = 1 THEN DOMAIN b \ {r} ELSE DOMAIN b) |->
        IF x = r THEN b[x] - 1 ELSE b[x]]

\* The pre-image of the event is a row of the table
PreImageHolds(st, sch, op) ==
    op.operation_type = "Insert" \/ RowOf(Unwrap(op.before_values), sch) \in DOMAIN st

\* The table after the event: one row inserted, removed or replaced
RowEvent(st, sch, op) ==
    CASE op.operation_type = "Insert" ->
            BagAdd(st, RowOf(Unwrap(op.after_values), sch), 1)
      [] op.operation_type = "Delete" ->
            BagRemoveOne(st, RowOf(Unwrap(op.before_values), sch))
      [] op.operation_type = "Update" ->
            BagAdd(BagRemoveOne(st, RowOf(Unwrap(op.before_values), sch)),
                   RowOf(Unwrap(op.after_values), sch), 1)

RECURSIVE StateAfter(_, _, _, _)
\* The table after the first k operations of ops, starting from st
StateAfter(st, sch, ops, k) ==
    IF k = 0 THEN st
    ELSE RowEvent(StateAfter(st, sch, ops, k - 1), sch, ops[k])

\* The schemas and literals streams are drawn from
StreamSchemas == {sch \in Schemas : sch.types[2] \in {"VARCHAR", "DECIMAL(10,2)"}}
StreamLiterals(t) ==
    CASE t = "INTEGER"       -> {"1", "2"}
      [] t = "VARCHAR"       -> {"'a'", "NULL"}
      [] t = "DECIMAL(10,2)" -> {"1.50", "1.5"}
StreamImages(sch) ==
    {<<a, b>> : a \in StreamLiterals(sch.types[1]), b \in StreamLiterals(sch.types[2])}
StreamOperations(sch) ==
    {op \in Operations(sch) :
        /\ IsSome(op.before_values) => Unwrap(op.before_values) \in StreamImages(sch)
        /\ IsSome(op.after_values) => Unwrap(op.after_values) \in StreamImages(sch)}

RECURSIVE Histories(_, _, _)
\* The streams of at most n operations that are histories of a table st
Histories(st, sch, n) ==
    {<< >>} \cup
    (IF n = 0 THEN {}
     ELSE UNION {{<<op>> \o h : h \in Histories(RowEvent(st, sch, op), sch, n - 1)} :
                    op \in {o \in StreamOperations(sch) : PreImageHolds(st, sch, o)}})

HistoryStarts(sch) ==
    {BagOfSeq(s) : s \in UNION {[1..n -> {RowOf(im, sch) : im \in StreamImages(sch)}] :
                                    n \in 0..MaxHistRows}}

-----------------------------------------------------------------------------
(* snapshot_manager.rs: the cursor.  c is [store, current_position]; every   *)
(* operator gives the set of outcomes of the call: the cursor it leaves, the  *)
(* value it returns (ret), whether it returned Err instead (err; ret then     *)
(* holds no returned value) and the single steps it completed (steps).        *)

\* The outcome of a single step whose conditional apply gave out and which
\* moves the cursor to position moved
stepped(c, out, moved) ==
    IF out.ok
    THEN [c |-> [store |-> out.after, current_position |-> moved],
          ret |-> TRUE, err |-> FALSE, steps |-> 1]
    ELSE [c |-> [store |-> out.after, current_position |-> c.current_position],
          ret |-> FALSE, err |-> TRUE, steps |-> 0]

\* The outcome of a single step that found the cursor at the boundary
at_boundary(c) == [c |-> c, ret |-> FALSE, err |-> FALSE, steps |-> 0]

\* A step_forward that applies the operation the cursor already stands on
step_forward_applies_current(c, ops, sch) ==
    IF c.current_position + 1 >= Len(ops)
    THEN {at_boundary(c)}
    ELSE {stepped(c, out, c.current_position + 1) :
            out \in apply_operation_conditionally(c.store, sch, ops[c.current_position + 1])}

\* A step_forward that moves the cursor before it applies the operation
step_forward_moves_first(c, ops, sch) ==
    IF c.current_position + 1 >= Len(ops)
    THEN {at_boundary(c)}
    ELSE {[c   |-> [store |-> out.after, current_position |-> c.current_position + 1],
           ret |-> out.ok, err |-> ~out.ok, steps |-> IF out.ok THEN 1 ELSE 0] :
            out \in apply_operation_conditionally(c.store, sch, ops[c.current_position + 2])}

step_forward(c, ops, sch) ==
    IF c.current_position + 1 >= Len(ops)
    THEN {at_boundary(c)}
    ELSE {stepped(c, out, c.current_position + 1) :
            out \in apply_operation_conditionally(c.store, sch, ops[c.current_position + 2])}

\* A step_backward that inverts the operation before the one the cursor stands on
step_backward_inverts_previous(c, ops, sch) ==
    IF c.current_position = 0
    THEN {at_boundary(c)}
    ELSE {stepped(c, out, c.current_position - 1) :
            out \in apply_operation_conditionally(c.store, sch,
                                                  invert(ops[c.current_position]))}

step_backward(c, ops, sch) ==
    IF c.current_position = 0
    THEN {at_boundary(c)}
    ELSE {stepped(c, out, c.current_position - 1) :
            out \in apply_operation_conditionally(c.store, sch,
                                                  invert(ops[c.current_position + 1]))}

\* A step_forward_by that stops after its first step
step_forward_by_once(c, ops, sch, count) ==
    IF count = 0 THEN {[c |-> c, ret |-> 0, err |-> FALSE, steps |-> 0]}
    ELSE {[c |-> o.c, ret |-> o.steps, err |-> o.err, steps |-> o.steps] :
            o \in step_forward(c, ops, sch)}

RECURSIVE step_forward_by(_, _, _, _)
step_forward_by(c, ops, sch, count) ==
    IF count = 0 THEN {[c |-> c, ret |-> 0, err |-> FALSE, steps |-> 0]}
    ELSE UNION {IF o.err
                THEN {[c |-> o.c, ret |-> 0, err |-> TRUE, steps |-> 0]}
                ELSE IF o.ret
                THEN {[c |-> r.c, ret |-> IF r.err THEN 0 ELSE r.ret + 1,
                       err |-> r.err, steps |-> r.steps + 1] :
                        r \in step_forward_by(o.c, ops, sch, count - 1)}
                ELSE {[c |-> o.c, ret |-> 0, err |-> FALSE, steps |-> 0]} :
                    o \in step_forward(c, ops, sch)}

RECURSIVE step_backward_by(_, _, _, _)
step_backward_by(c, ops, sch, count) ==
    IF count = 0 THEN {[c |-> c, ret |-> 0, err |-> FALSE, steps |-> 0]}
    ELSE UNION {IF o.err
                THEN {[c |-> o.c, ret |-> 0, err |-> TRUE, steps |-> 0]}
                ELSE IF o.ret
                THEN {[c |-> r.c, ret |-> IF r.err THEN 0 ELSE r.ret + 1,
                       err |-> r.err, steps |-> r.steps + 1] :
                        r \in step_backward_by(o.c, ops, sch, count - 1)}
                ELSE {[c |-> o.c, ret |-> 0, err |-> FALSE, steps |-> 0]} :
                    o \in step_backward(c, ops, sch)}

\* The outcome of goto_position after the walk r it delegated to
arrived(r) == [c |-> r.c, ret |-> IF r.err THEN "Err" ELSE "Ok", err |-> r.err,
               steps |-> r.steps]

\* A goto_position that lets the position one past the end through
goto_position_past_end(c, ops, sch, target_position) ==
    IF target_position > Len(ops)
    THEN {[c |-> c, ret |-> "Err", err |-> FALSE, steps |-> 0]}
    ELSE IF target_position > c.current_position
    THEN {arrived(r) :
            r \in step_forward_by(c, ops, sch, target_position - c.current_position)}
    ELSE IF target_position < c.current_position
    THEN {arrived(r) :
            r \in step_backward_by(c, ops, sch, c.current_position - target_position)}
    ELSE {[c |-> c, ret |-> "Ok", err |-> FALSE, steps |-> 0]}

goto_position(c, ops, sch, target_position) ==
    IF target_position >= Len(ops)
    THEN {[c |-> c, ret |-> "Err", err |-> FALSE, steps |-> 0]}
    ELSE IF target_position > c.current_position
    THEN {arrived(r) :
            r \in step_forward_by(c, ops, sch, target_position - c.current_position)}
    ELSE IF target_position < c.current_position
    THEN {arrived(r) :
            r \in step_backward_by(c, ops, sch, c.current_position - target_position)}
    ELSE {[c |-> c, ret |-> "Ok", err |-> FALSE, steps |-> 0]}

Cursor == [store |-> store, current_position |-> current_position]

\* SnapshotManager::new on a store that holds the table as it was after
\* operations[0..=initial_position]
InitCursor ==
    /\ schema \in StreamSchemas
    /\ hist0 \in HistoryStarts(schema)
    /\ operations \in Histories(hist0, schema, MaxOps)
    /\ operations # << >>
    /\ current_position \in 0..(Len(operations) - 1)
    /\ store = StateAfter(hist0, schema, operations, current_position + 1)
    /\ lastNav = None
    /\ navCount = 0
    /\ calls = << >>
    /\ norm = None
    /\ parser = None

\* One navigation call: its outcome becomes the cursor, the call is logged
Navigate(call, arg, outcomes) ==
    /\ navCount < MaxNavCalls
    /\ \E o \in outcomes :
        /\ store' = o.c.store
        /\ current_position' = o.c.current_position
        /\ lastNav' = Some([call |-> call, arg |-> arg, pre |-> Cursor, ret |-> o.ret,
                            err |-> o.err, steps |-> o.steps])
    /\ navCount' = navCount + 1
    /\ UNCHANGED <<schema, calls, operations, hist0, norm, parser>>

StepForward == Navigate("step_forward", 1, step_forward(Cursor, operations, schema))

StepBackward == Navigate("step_backward", 1, step_backward(Cursor, operations, schema))

StepForwardBy ==
    \E count \in 0..MaxOps :
        Navigate("step_forward_by", count, step_forward_by(Cursor, operations, schema, count))

StepBackwardBy ==
    \E count \in 0..MaxOps :
        Navigate("step_backward_by", count, step_backward_by(Cursor, operations, schema, count))

GotoPosition ==
    \E target_position \in 0..MaxOps :
        Navigate("goto_position", target_position,
                 goto_position(Cursor, operations, schema, target_position))

NextCursor == StepForward \/ StepBackward \/ StepForwardBy \/ StepBackwardBy \/ GotoPosition

SpecCursor == InitCursor /\ [][NextCursor]_vars

\* Operations on a table the snapshot does not hold, one of each kind
OtherTableEvents(sch) ==
    {op \in OtherTableOperations(sch) :
        /\ IsSome(op.before_values) => Unwrap(op.before_values) = <<"1", "'a'">>
        /\ IsSome(op.after_values) => Unwrap(op.after_values) = <<"2", "'a'">>}

RECURSIVE MixedHistories(_, _, _)
\* The streams of at most n operations in which the operations on the
\* snapshot's table are a history of st and the others are on another table
MixedHistories(st, sch, n) ==
    {<< >>} \cup
    (IF n = 0 THEN {}
     ELSE UNION {{<<op>> \o h : h \in MixedHistories(RowEvent(st, sch, op), sch, n - 1)} :
                    op \in {o \in StreamOperations(sch) : PreImageHolds(st, sch, o)}}
          \cup {<<op>> \o h : op \in OtherTableEvents(sch),
                               h \in MixedHistories(st, sch, n - 1)})

\* The operations of ops on the snapshot's table
OnSnapshotTable(ops) == SelectSeq(ops, LAMBDA op : op.table_name = TableName)

\* SnapshotManager::new on a stream that also holds operations on a table
\* the store does not hold (the constructor takes any stream)
InitFailing ==
    /\ schema = [columns |-> <<"id", "name">>, types |-> <<"INTEGER", "VARCHAR">>]
    /\ hist0 = EmptyBag
    /\ operations \in MixedHistories(hist0, schema, MaxOps)
    /\ operations # << >>
    /\ current_position \in 0..(Len(operations) - 1)
    /\ store = StateAfter(hist0, schema,
                          OnSnapshotTable(SubSeq(operations, 1, current_position + 1)),
                          Len(OnSnapshotTable(SubSeq(operations, 1, current_position + 1))))
    /\ lastNav = None
    /\ navCount = 0
    /\ calls = << >>
    /\ norm = None
    /\ parser = None

\* The cursor on streams in which a conditional apply may fail
SpecFailing == InitFailing /\ [][NextCursor]_vars

-----------------------------------------------------------------------------
(* binlog_timestamp.rs.  A text is read character by character; a            *)
(* BinlogTimestamp holds the instant, counted here in seconds from           *)
(* 2025-01-01 00:00:00 (every date of the model lies in 2025).               *)

Ok(x) == [ok |-> TRUE, value |-> x]
Err == [ok |-> FALSE]

\* The characters of the timestamp texts that headers and callers supply
BinlogTexts ==
    {<<"2", "5", "1", "0", "2", "0", " ", "2", "1", ":", "0", "0", ":", "0", "0">>,
     <<"2", "5", "1", "0", "2", "0", " ", "2", "2", ":", "3", "0", ":", "0", "0">>,
     <<"2", "5", "1", "0", "2", "0", " ", "2", "3", ":", "3", "0", ":", "0", "0">>,
     <<"2", "5", "1", "0", "2", "1", " ", "0", ":", "1", "5", ":", "0", "0">>,
     <<"2", "5", "1", "0", "2", "1", " ", "0", ":", "3", "0", ":", "0", "0">>,
     <<"2", "5", "1", "0", "2", "1", " ", "2", ":", "0", "0", ":", "0", "0">>,
     <<"2", "0", "2", "5", "-", "1", "0", "-", "2", "0", " ", "2", "3", ":", "3", "0", ":", "0", "0">>,
     <<"2", "5", "1", "0", "2", "0", " ", "2", "5", ":", "0", "0", ":", "0", "0">>}

\* The text a sequence of characters spells
Text(chars) == join(chars, "")

RECURSIVE split(_, _)
\* str::split(sep): the parts between the separators, empty ones included
split(chars, sep) ==
    IF \A i \in 1..Len(chars) : chars[i] # sep THEN <<chars>>
    ELSE LET i == CHOOSE k \in 1..Len(chars) :
                    chars[k] = sep /\ \A m \in 1..(k - 1) : chars[m] # sep
         IN <<SubSeq(chars, 1, i - 1)>> \o split(SubSeq(chars, i + 1, Len(chars)), sep)

Digits == <<"0", "1", "2", "3", "4", "5", "6", "7", "8", "9">>
is_digit(ch) == \E i \in 1..Len(Digits) : Digits[i] = ch
digit_value(ch) == (CHOOSE i \in 1..Len(Digits) : Digits[i] = ch) - 1

RECURSIVE digits_value(_)
digits_value(chars) ==
    IF chars = << >> THEN 0
    ELSE digits_value(SubSeq(chars, 1, Len(chars) - 1)) * 10 + digit_value(chars[Len(chars)])

\* str::parse::<u32>: an optional leading "+", then one or more digits (the
\* texts of the model are too short to overflow)
parse_u32(chars) ==
    LET body == IF chars # << >> /\ chars[1] = "+" THEN Tail(chars) ELSE chars
    IN IF body = << >> \/ \E i \in 1..Len(body) : ~is_digit(body[i])
       THEN Err
       ELSE Ok(digits_value(body))

\* str::parse::<i32>: an optional leading "+" or "-", then one or more digits
parse_i32(chars) ==
    LET signed == chars # << >> /\ chars[1] \in {"+", "-"}
        body == IF signed THEN Tail(chars) ELSE chars
    IN IF body = << >> \/ \E i \in 1..Len(body) : ~is_digit(body[i])
       THEN Err
       ELSE Ok(IF signed /\ chars[1] = "-" THEN 0 - digits_value(body) ELSE digits_value(body))

is_leap_year(year) == year % 4 = 0 /\ (year % 100 # 0 \/ year % 400 = 0)

days_in_month(year, month) ==
    IF month = 2 THEN (IF is_leap_year(year) THEN 29 ELSE 28)
    ELSE IF month \in {4, 6, 9, 11} THEN 30
    ELSE 31

RECURSIVE days_before_month(_, _)
days_before_month(year, month) ==
    IF month = 1 THEN 0
    ELSE days_before_month(year, month - 1) + days_in_month(year, month - 1)

\* NaiveDate::from_ymd_opt: the day counted from 2025-01-01, None for a date
\* the calendar does not have
from_ymd_opt(year, month, day) ==
    IF month \in 1..12 /\ day >= 1 /\ day <= days_in_month(year, month)
    THEN Some((year - 2025) * 365 + ((year - 2025) \div 4)
                + days_before_month(year, month) + day - 1)
    ELSE None

\* NaiveTime::from_hms_opt: the second of the day
from_hms_opt(hour, minute, second) ==
    IF hour < 24 /\ minute < 60 /\ second < 60
    THEN Some((hour * 60 + minute) * 60 + second)
    ELSE None

\* BinlogTimestamp::parse on the characters of the text
parse_chars(timestamp) ==
    LET parts == split(timestamp, " ") IN
    IF Len(parts) # 2 THEN Err
    ELSE LET date_part == parts[1]
             time_part == parts[2]
         IN IF Len(date_part) # 6 THEN Err
            ELSE LET year == parse_i32(<<"2", "0">> \o SubSeq(date_part, 1, 2))
                     month == parse_u32(SubSeq(date_part, 3, 4))
                     day == parse_u32(SubSeq(date_part, 5, 6))
                     time_components == split(time_part, ":")
                 IN IF ~year.ok \/ ~month.ok \/ ~day.ok THEN Err
                    ELSE IF Len(time_components) # 3 THEN Err
                    ELSE LET hour == parse_u32(time_components[1])
                             minute == parse_u32(time_components[2])
                             second == parse_u32(time_components[3])
                         IN IF ~hour.ok \/ ~minute.ok \/ ~second.ok THEN Err
                            ELSE LET date == from_ymd_opt(year.value, month.value, day.value)
                                     time == from_hms_opt(hour.value, minute.value,
                                                          second.value)
                                 IN IF ~IsSome(date) \/ ~IsSome(time) THEN Err
                                    ELSE Ok([datetime |->
                                                Unwrap(date) * 86400 + Unwrap(time)])

\* BinlogTimestamp::parse of each text of BinlogTexts
ParsedTexts ==
    [t \in {Text(c) : c \in BinlogTexts} |->
        parse_chars(CHOOSE c \in BinlogTexts : Text(c) = t)]

\* A parse that reads the dashed date of "2025-10-20 23:30:00" as 251020
parse_dashed_date(timestamp) ==
    IF timestamp = "2025-10-20 23:30:00" THEN ParsedTexts["251020 23:30:00"]
    ELSE ParsedTexts[timestamp]

\* BinlogTimestamp::parse
parse(timestamp) == ParsedTexts[timestamp]

\* {:02} of a number below 100
pad2(n) ==
    IF n < 10 THEN "0" \o Digits[n + 1]
    ELSE Digits[(n \div 10) + 1] \o Digits[(n % 10) + 1]

\* BinlogTimestamp::to_binlog_format
to_binlog_format(ts) ==
    LET days == ts.datetime \div 86400
        secs == ts.datetime % 86400
        date == CHOOSE f \in (2025..2026) \X (1..12) \X (1..31) :
                    from_ymd_opt(f[1], f[2], f[3]) = Some(days)
    IN pad2(date[1] % 100) \o pad2(date[2]) \o pad2(date[3]) \o " "
        \o pad2(secs \div 3600) \o ":" \o pad2((secs \div 60) % 60) \o ":" \o pad2(secs % 60)

add_hours(ts, hours) == [datetime |-> ts.datetime + hours * 3600]

subtract_hours(ts, hours) == [datetime |-> ts.datetime - hours * 3600]

-----------------------------------------------------------------------------
(* timestamp_normaliser.rs *)

\* Timestamps of the headers that stamp the operations of a stream
OpTimestamps == {"251020 21:00:00", "251020 22:30:00", "251021 0:15:00", "251021 2:00:00"}
\* The snapshot_timestamp argument: a well-formed text and a malformed one
SnapshotTimestamps == {"251020 23:30:00", "2025-10-20 23:30:00"}
\* The window_hours argument
window_hours == 1

\* Stamps in log order: headers never go back in time
Stamps(n) ==
    {s \in [1..n -> OpTimestamps] :
        \A i \in 1..(n - 1) :
            parse(s[i]).value.datetime <= parse(s[i + 1]).value.datetime}

Stamped(ops, s) == [i \in 1..Len(ops) |-> [ops[i] EXCEPT !.timestamp = Some(s[i])]]

\* A reverse that leaves the order as it is
reverse_keeps_order(s) == s

\* Vec::reverse
Reverse(s) == [i \in 1..Len(s) |-> s[Len(s) + 1 - i]]

\* A filter that leaves the upper bound out
in_window_exclusive(op, ts_lower, ts_upper) ==
    /\ IsSome(op.timestamp)
    /\ parse(Unwrap(op.timestamp)).ok
    /\ parse(Unwrap(op.timestamp)).value.datetime >= ts_lower.datetime
    /\ parse(Unwrap(op.timestamp)).value.datetime < ts_upper.datetime

\* The filter of window_ops
in_window(op, ts_lower, ts_upper) ==
    /\ IsSome(op.timestamp)
    /\ parse(Unwrap(op.timestamp)).ok
    /\ parse(Unwrap(op.timestamp)).value.datetime >= ts_lower.datetime
    /\ parse(Unwrap(op.timestamp)).value.datetime <= ts_upper.datetime

\* A window that takes in every index from its first operation to its last
window_ops_whole_span(ops, ts_lower, ts_upper) ==
    LET inside == {i \in 1..Len(ops) : in_window(ops[i], ts_lower, ts_upper)}
    IN SelectSeq([i \in 1..Len(ops) |-> i - 1],
                 LAMBDA idx : \E a, b \in inside : a <= idx + 1 /\ idx + 1 <= b)

\* The 0-based indices of the operations in the window, in stream order
window_ops(ops, ts_lower, ts_upper) ==
    SelectSeq([i \in 1..Len(ops) |-> i - 1],
              LAMBDA idx : in_window(ops[idx + 1], ts_lower, ts_upper))

\* normalize is called on a snapshot that is the table after some prefix of
\* the stream (snapshot_at operations; kept for the properties)
InitNormalise ==
    /\ schema \in StreamSchemas
    /\ hist0 \in HistoryStarts(schema)
    /\ \E h \in Histories(hist0, schema, MaxOps) :
        \E s \in Stamps(Len(h)) : operations = Stamped(h, s)
    /\ \E k \in 0..Len(operations), t \in SnapshotTimestamps :
        /\ store = StateAfter(hist0, schema, operations, k)
        /\ norm = [phase |-> "start", snapshot_timestamp |-> t, snapshot_at |-> k,
                   window_ops |-> << >>, tx_zero_idx |-> 0, todo |-> << >>,
                   applied_forward |-> 0, skipped_forward |-> 0,
                   applied_inverted |-> 0, skipped_inverted |-> 0, touched |-> {},
                   probes |-> << >>, results |-> << >>]
    /\ current_position = 0
    /\ calls = << >>
    /\ lastNav = None
    /\ navCount = 0
    /\ parser = None

\* An empty-window branch that answers the first index
empty_window_tx_zero_first(ops) == 0

\* The tx_zero_idx of the empty-window branch
empty_window_tx_zero(ops) == IF ops = << >> THEN 0 ELSE Len(ops) - 1

\* normalize up to the first loop: the window and transaction zero
NormalizeBegin ==
    /\ norm.phase = "start"
    /\ LET snapshot_ts == parse(norm.snapshot_timestamp) IN
        IF ~snapshot_ts.ok
        THEN norm' = [norm EXCEPT !.phase = "error"]
        ELSE LET ts_lower == subtract_hours(snapshot_ts.value, window_hours)
                 ts_upper == add_hours(snapshot_ts.value, window_hours)
                 w == window_ops(operations, ts_lower, ts_upper)
                 tz == w[(Len(w) \div 2) + 1]
             IN IF w = << >>
                THEN norm' = [norm EXCEPT !.phase = "return",
                                          !.tx_zero_idx = empty_window_tx_zero(operations)]
                ELSE norm' = [norm EXCEPT !.phase = "forward",
                                          !.window_ops = w,
                                          !.tx_zero_idx = tz,
                                          !.todo = SelectSeq(w, LAMBDA i : i <= tz)]
    /\ UNCHANGED <<schema, store, calls, operations, current_position, hist0, lastNav,
                   navCount, parser>>

\* A ? that lets the loop go on after a failed call
returns_early_never(out) == FALSE

\* The ? on apply_operation_conditionally's Result: the error is returned
returns_early(out) == ~out.ok

\* One iteration of the forward loop; after the last one the reverse loop's
\* indices are collected and reversed.  touched, probes and results record
\* the calls of apply_operation_conditionally: the index and the operation
\* passed, and whether the call returned Ok (history).
ForwardPhase ==
    /\ norm.phase = "forward"
    /\ \E out \in apply_operation_conditionally(store, schema,
                                                operations[Head(norm.todo) + 1]) :
        /\ store' = out.after
        /\ LET probed == [norm EXCEPT !.touched = @ \cup {Head(norm.todo)},
                                      !.probes = Append(@, [idx |-> Head(norm.todo),
                                                            op |-> out.op]),
                                      !.results = Append(@, out.ok)]
               counted == IF out.applied
                          THEN [probed EXCEPT !.applied_forward = @ + 1]
                          ELSE [probed EXCEPT !.skipped_forward = @ + 1]
           IN norm' = IF returns_early(out)
                      THEN [probed EXCEPT !.phase = "error"]
                      ELSE IF Tail(norm.todo) # << >>
                      THEN [counted EXCEPT !.todo = Tail(@)]
                      ELSE [counted EXCEPT
                                !.phase = "reverse",
                                !.todo = Reverse(SelectSeq(norm.window_ops,
                                                 LAMBDA i : i > norm.tx_zero_idx))]
    /\ UNCHANGED <<schema, calls, operations, current_position, hist0, lastNav,
                   navCount, parser>>

\* One iteration of the reverse loop
ReversePhase ==
    /\ norm.phase = "reverse"
    /\ norm.todo # << >>
    /\ \E out \in apply_operation_conditionally(store, schema,
                                                invert(operations[Head(norm.todo) + 1])) :
        /\ store' = out.after
        /\ LET probed == [norm EXCEPT !.touched = @ \cup {Head(norm.todo)},
                                      !.probes = Append(@, [idx |-> Head(norm.todo),
                                                            op |-> out.op]),
                                      !.results = Append(@, out.ok)]
           IN norm' = IF returns_early(out)
                      THEN [probed EXCEPT !.phase = "error"]
                      ELSE [probed EXCEPT
                                !.todo = Tail(@),
                                !.applied_inverted = IF out.applied THEN @ + 1 ELSE @,
                                !.skipped_inverted = IF out.applied THEN @ ELSE @ + 1]
    /\ UNCHANGED <<schema, calls, operations, current_position, hist0, lastNav,
                   navCount, parser>>

\* normalize returns (conn, operations, tx_zero_idx); Pensieve::new hands them
\* to SnapshotManager::new
NormalizeReturn ==
    /\ \/ norm.phase = "return"
       \/ norm.phase = "reverse" /\ norm.todo = << >>
    /\ norm' = [norm EXCEPT !.phase = "done"]
    /\ current_position' = norm.tx_zero_idx
    /\ UNCHANGED <<schema, store, calls, operations, hist0, lastNav, navCount, parser>>

NextNormalise == NormalizeBegin \/ ForwardPhase \/ ReversePhase \/ NormalizeReturn

SpecNormalise == InitNormalise /\ [][NextNormalise]_vars

-----------------------------------------------------------------------------
(* text_binlog_parser.rs.  A file is a sequence of lines drawn from a small  *)
(* lexicon; each regex and string test is given by what it matches and       *)
(* captures on the lines of the lexicon.  In the texts ' stands for the      *)
(* grave accent that quotes identifiers in the log.                          *)

HeaderLine == "#251020  9:00:00 server id 1  end_log_pos 100"
\* The header of a later event
Header2Line == "#251020 10:00:00 server id 1  end_log_pos 200"
InsertLine == "### INSERT INTO 'main'.'users'"
UpdateLine == "### UPDATE 'main'.'users'"
DeleteLine == "### DELETE FROM 'main'.'users'"
SetLine == "### SET"
ColumnLine == "###   @1=1"
Column2Line == "###   @2='a'"
Column3Line == "###   @3=7"
\* A statement on a table the snapshot does not hold
OtherTableLine == "### UPDATE 'main'.'orders'"
\* The item lines.next() yields when reading a line fails: Some(Err(io::Error))
ReadError == "<io::Error>"

LogLines ==
    {"BEGIN", "COMMIT/*!*/;", "ROLLBACK/*!*/;", HeaderLine, Header2Line,
     InsertLine, UpdateLine, DeleteLine, SetLine, ColumnLine, Column2Line, Column3Line}

\* ^BEGIN, ^COMMIT, ^ROLLBACK
begin_regex(line) == line = "BEGIN"
commit_regex(line) == line = "COMMIT/*!*/;"
rollback_regex(line) == line = "ROLLBACK/*!*/;"
\* ^#(\d{6})\s+(\d{1,2}:\d{2}:\d{2}): the date and the time
timestamp_regex(line) ==
    IF line = HeaderLine THEN Some(<<"251020", "9:00:00">>)
    ELSE IF line = Header2Line THEN Some(<<"251020", "10:00:00">>)
    ELSE None
\* end_log_pos\s+(\d+), parsed as u32
position_regex(line) ==
    IF line = HeaderLine THEN Some(100)
    ELSE IF line = Header2Line THEN Some(200)
    ELSE None
\* ^### UPDATE\s+(.+), ^### INSERT INTO\s+(.+), ^### DELETE FROM\s+(.+)
update_regex(line) ==
    IF line = UpdateLine THEN Some("'main'.'users'")
    ELSE IF line = OtherTableLine THEN Some("'main'.'orders'")
    ELSE None
insert_regex(line) == IF line = InsertLine THEN Some("'main'.'users'") ELSE None
delete_regex(line) == IF line = DeleteLine THEN Some("'main'.'users'") ELSE None
\* ^###\s+@(\d+)=(.*)$: the column number and the value
column_value_regex(line) ==
    CASE line = ColumnLine  -> Some([col_num |-> 1, value |-> "1"])
      [] line = Column2Line -> Some([col_num |-> 2, value |-> "'a'"])
      [] line = Column3Line -> Some([col_num |-> 3, value |-> "7"])
      [] OTHER -> None
\* line.starts_with("###")
starts_with_hashes(line) ==
    line \in {InsertLine, UpdateLine, DeleteLine, SetLine, ColumnLine, Column2Line, Column3Line,
              OtherTableLine}
\* line.contains("### UPDATE") || contains("### INSERT INTO") || contains("### DELETE FROM")
contains_statement(line) == line \in {InsertLine, UpdateLine, DeleteLine, OtherTableLine}
\* line.contains("### SET")
contains_set(line) == line = SetLine

\* extract_table_name: (database, table)
extract_table_name(table_path) ==
    IF table_path = "'main'.'users'" THEN <<"main", "users">>
    ELSE IF table_path = "'main'.'orders'" THEN <<"main", "orders">>
    ELSE <<"", table_path>>

\* A get_table_schema that answers with the columns of users for any table
parser_get_table_schema_any_table(sch, table_name) == sch.columns

\* TextBinlogParser::get_table_schema: the column names, none for a table the
\* snapshot does not hold
parser_get_table_schema(sch, table_name) ==
    IF table_name = TableName THEN sch.columns ELSE << >>

RECURSIVE skip_to_next_sql_operation(_)
\* skip_to_next_sql_operation: the lines left once those of the statement are dropped
skip_to_next_sql_operation(ls) ==
    IF ls = << >> \/ ~starts_with_hashes(Head(ls)) \/ contains_statement(Head(ls))
    THEN ls
    ELSE skip_to_next_sql_operation(Tail(ls))

RECURSIVE read_values(_, _, _)
\* The while-let loop over lines.peek() that collects @n=value
\* lines into a map; stop_at_set is the WHERE loop of parse_update
read_values(ls, values, stop_at_set) ==
    IF ls = << >> \/ ~starts_with_hashes(Head(ls)) \/ contains_statement(Head(ls))
    THEN [lines |-> ls, values |-> values, found_set |-> FALSE]
    ELSE IF stop_at_set /\ contains_set(Head(ls))
    THEN [lines |-> Tail(ls), values |-> values, found_set |-> TRUE]
    ELSE LET cap == column_value_regex(Head(ls))
         IN read_values(Tail(ls),
                        IF IsSome(cap)
                        THEN [k \in DOMAIN values \cup {Unwrap(cap).col_num} |->
                                IF k = Unwrap(cap).col_num THEN Unwrap(cap).value
                                ELSE values[k]]
                        ELSE values,
                        stop_at_set)

\* An image that has one entry for each column number supplied
image_of_as_supplied(values, columns) ==
    [i \in 1..Cardinality(DOMAIN values) |-> IF i \in DOMAIN values THEN values[i] ELSE "NULL"]

\* "Convert HashMap to Vec (ordered by column index)"
image_of(values, columns) ==
    [i \in 1..Len(columns) |-> IF i \in DOMAIN values THEN values[i] ELSE "NULL"]

\* An operation that is given no position
stamped_operation_without_position(kind, table_path, columns, before, after, timestamp, position) ==
    [BinlogOperation(kind, columns, before, after, timestamp, None)
        EXCEPT !.database = extract_table_name(table_path)[1],
               !.table_name = extract_table_name(table_path)[2]]

stamped_operation(kind, table_path, columns, before, after, timestamp, position) ==
    [BinlogOperation(kind, columns, before, after, timestamp, position)
        EXCEPT !.database = extract_table_name(table_path)[1],
               !.table_name = extract_table_name(table_path)[2]]

\* parse_update, parse_insert, parse_delete: ls are the lines after the
\* statement line; the result is the lines left and the operation, if any
\* A parse_update that gives no operation when no "### SET" line was found
parse_update_requires_set(ls, table_path, timestamp, position, sch) ==
    LET columns == parser_get_table_schema(sch, extract_table_name(table_path)[2])
        where_loop == read_values(ls, << >>, TRUE)
        set_loop == read_values(where_loop.lines, << >>, FALSE)
    IN IF columns = << >>
       THEN [lines |-> skip_to_next_sql_operation(ls), op |-> None]
       ELSE IF ~where_loop.found_set
       THEN [lines |-> where_loop.lines, op |-> None]
       ELSE [lines |-> set_loop.lines,
             op |-> Some(stamped_operation("Update", table_path, columns,
                            Some(image_of(where_loop.values, columns)),
                            Some(image_of(set_loop.values, columns)),
                            timestamp, position))]

parse_update(ls, table_path, timestamp, position, sch) ==
    LET columns == parser_get_table_schema(sch, extract_table_name(table_path)[2])
        where_loop == read_values(ls, << >>, TRUE)
        set_loop == IF where_loop.found_set
                    THEN read_values(where_loop.lines, << >>, FALSE)
                    ELSE [lines |-> where_loop.lines, values |-> << >>, found_set |-> FALSE]
    IN IF columns = << >>
       THEN [lines |-> skip_to_next_sql_operation(ls), op |-> None]
       ELSE [lines |-> set_loop.lines,
             op |-> Some(stamped_operation("Update", table_path, columns,
                            Some(image_of(where_loop.values, columns)),
                            Some(image_of(set_loop.values, columns)),
                            timestamp, position))]

parse_insert(ls, table_path, timestamp, position, sch) ==
    LET columns == parser_get_table_schema(sch, extract_table_name(table_path)[2])
        loop == read_values(ls, << >>, FALSE)
    IN IF columns = << >>
       THEN [lines |-> skip_to_next_sql_operation(ls), op |-> None]
       ELSE [lines |-> loop.lines,
             op |-> Some(stamped_operation("Insert", table_path, columns,
                            None, Some(image_of(loop.values, columns)),
                            timestamp, position))]

\* A parse_delete that fills the after image as well
parse_delete_with_after(ls, table_path, timestamp, position, sch) ==
    LET columns == parser_get_table_schema(sch, extract_table_name(table_path)[2])
        loop == read_values(ls, << >>, FALSE)
    IN IF columns = << >>
       THEN [lines |-> skip_to_next_sql_operation(ls), op |-> None]
       ELSE [lines |-> loop.lines,
             op |-> Some(stamped_operation("Delete", table_path, columns,
                            Some(image_of(loop.values, columns)),
                            Some(image_of(loop.values, columns)),
                            timestamp, position))]

parse_delete(ls, table_path, timestamp, position, sch) ==
    LET columns == parser_get_table_schema(sch, extract_table_name(table_path)[2])
        loop == read_values(ls, << >>, FALSE)
    IN IF columns = << >>
       THEN [lines |-> skip_to_next_sql_operation(ls), op |-> None]
       ELSE [lines |-> loop.lines,
             op |-> Some(stamped_operation("Delete", table_path, columns,
                            Some(image_of(loop.values, columns)), None,
                            timestamp, position))]

\* The branches of parse_file's loop.  p is the parser's locals, ops the
\* operations vector; each gives both as they are after the branch.
\* pending_lines and operation_lines record, for each pending and each
\* returned operation, the number of the line its statement stood on, and
\* parsed_at the statement lines that gave an operation (history).
\* A BEGIN branch that keeps the buffer
begin_branch_keeps_buffer(p, ops) ==
    [parser |-> [p EXCEPT !.in_transaction = TRUE], operations |-> ops]

begin_branch(p, ops) ==
    [parser |-> [p EXCEPT !.in_transaction = TRUE,
                          !.pending_operations = << >>,
                          !.pending_lines = << >>],
     operations |-> ops]

\* A COMMIT branch that hands the pending operations on newest first
commit_branch_newest_first(p, ops) ==
    [parser |-> [p EXCEPT !.in_transaction = FALSE,
                          !.pending_operations = << >>,
                          !.pending_lines = << >>,
                          !.operation_lines =
                                IF p.in_transaction THEN @ \o Reverse(p.pending_lines) ELSE @],
     operations |-> IF p.in_transaction THEN ops \o Reverse(p.pending_operations) ELSE ops]

commit_branch(p, ops) ==
    [parser |-> [p EXCEPT !.in_transaction = FALSE,
                          !.pending_operations = << >>,
                          !.pending_lines = << >>,
                          !.operation_lines =
                                IF p.in_transaction THEN @ \o p.pending_lines ELSE @],
     operations |-> IF p.in_transaction THEN ops \o p.pending_operations ELSE ops]

\* A ROLLBACK branch that hands the pending operations on, as COMMIT does
rollback_branch_appends(p, ops) ==
    [parser |-> [p EXCEPT !.in_transaction = FALSE,
                          !.pending_operations = << >>,
                          !.pending_lines = << >>,
                          !.operation_lines = @ \o p.pending_lines],
     operations |-> ops \o p.pending_operations]

rollback_branch(p, ops) ==
    [parser |-> [p EXCEPT !.in_transaction = FALSE,
                          !.pending_operations = IF p.in_transaction THEN << >> ELSE @,
                          !.pending_lines = IF p.in_transaction THEN << >> ELSE @],
     operations |-> ops]

\* A push that puts the operation on the operations vector at once, inside a
\* transaction too
push_operation_unbuffered(p, ops, op, at) ==
    [parser |-> [p EXCEPT !.operation_lines = Append(@, at),
                          !.parsed_at = @ \cup {at}],
     operations |-> Append(ops, op)]

\* The operation parsed from the statement on line at is pushed on the
\* pending buffer inside a transaction, on the operations vector outside
push_operation(p, ops, op, at) ==
    IF p.in_transaction
    THEN [parser |-> [p EXCEPT !.pending_operations = Append(@, op),
                               !.pending_lines = Append(@, at),
                               !.parsed_at = @ \cup {at}],
          operations |-> ops]
    ELSE [parser |-> [p EXCEPT !.operation_lines = Append(@, at),
                               !.parsed_at = @ \cup {at}],
          operations |-> Append(ops, op)]

\* Any other line: header captures, then the statement the line starts
other_branch(p, ops, sch) ==
    LET line == p.lines[p.next + 1]
        rest == SubSeq(p.lines, p.next + 2, Len(p.lines))
        current_timestamp ==
            IF IsSome(timestamp_regex(line))
            THEN Some(Unwrap(timestamp_regex(line))[1] \o " "
                        \o Unwrap(timestamp_regex(line))[2])
            ELSE p.current_timestamp
        position ==
            IF IsSome(position_regex(line)) THEN position_regex(line)
            ELSE p.current_position
        parsed ==
            CASE IsSome(update_regex(line)) ->
                    parse_update(rest, Unwrap(update_regex(line)),
                                 current_timestamp, position, sch)
              [] IsSome(insert_regex(line)) ->
                    parse_insert(rest, Unwrap(insert_regex(line)),
                                 current_timestamp, position, sch)
              [] IsSome(delete_regex(line)) ->
                    parse_delete(rest, Unwrap(delete_regex(line)),
                                 current_timestamp, position, sch)
              [] OTHER -> [lines |-> rest, op |-> None]
        read == [p EXCEPT !.next = Len(p.lines) - Len(parsed.lines),
                          !.current_timestamp = current_timestamp,
                          !.current_position = position]
    IN IF ~IsSome(parsed.op)
       THEN [parser |-> read, operations |-> ops]
       ELSE push_operation(read, ops, Unwrap(parsed.op), p.next + 1)

\* The table create_test_db makes: users(id INTEGER, name VARCHAR)
UsersSchema == [columns |-> <<"id", "name">>, types |-> <<"INTEGER", "VARCHAR">>]

\* Transaction marks and statements without column lines
TxLines == {"BEGIN", "COMMIT/*!*/;", "ROLLBACK/*!*/;", InsertLine, DeleteLine}

\* Short files of any lines, and longer ones that hold several transactions
LogFiles ==
    UNION {[1..n -> LogLines] : n \in 0..MaxLines}
    \cup UNION {[1..n -> TxLines] : n \in (MaxLines + 1)..MaxTxLines}

\* parse_file is called: nothing read, no transaction open
InitParser ==
    /\ schema = UsersSchema
    /\ store = EmptyBag
    /\ operations = << >>
    /\ \E file \in LogFiles :
        parser = [lines |-> file, next |-> 0,
                  current_timestamp |-> None, current_position |-> None,
                  in_transaction |-> FALSE,
                  pending_operations |-> << >>, pending_lines |-> << >>,
                  operation_lines |-> << >>, parsed_at |-> {}, failed_at |-> None]
    /\ current_position = 0
    /\ hist0 = EmptyBag
    /\ calls = << >>
    /\ lastNav = None
    /\ navCount = 0
    /\ norm = None

\* One iteration of the while-let loop over lines.next(): after
\* carries the locals and the operations vector on to the next iteration
Iteration(after) ==
    /\ parser' = after.parser
    /\ operations' = after.operations
    /\ UNCHANGED <<schema, store, calls, current_position, hist0, lastNav, navCount, norm>>

BeginLine ==
    /\ parser.next < Len(parser.lines)
    /\ begin_regex(parser.lines[parser.next + 1])
    /\ Iteration(begin_branch([parser EXCEPT !.next = @ + 1], operations))

CommitLine ==
    /\ parser.next < Len(parser.lines)
    /\ ~begin_regex(parser.lines[parser.next + 1])
    /\ commit_regex(parser.lines[parser.next + 1])
    /\ Iteration(commit_branch([parser EXCEPT !.next = @ + 1], operations))

RollbackLine ==
    /\ parser.next < Len(parser.lines)
    /\ ~begin_regex(parser.lines[parser.next + 1])
    /\ ~commit_regex(parser.lines[parser.next + 1])
    /\ rollback_regex(parser.lines[parser.next + 1])
    /\ Iteration(rollback_branch([parser EXCEPT !.next = @ + 1], operations))

OtherLine ==
    /\ parser.next < Len(parser.lines)
    /\ ~begin_regex(parser.lines[parser.next + 1])
    /\ ~commit_regex(parser.lines[parser.next + 1])
    /\ ~rollback_regex(parser.lines[parser.next + 1])
    /\ parser.lines[parser.next + 1] # ReadError
    /\ Iteration(other_branch(parser, operations, schema))

NextParser == BeginLine \/ CommitLine \/ RollbackLine \/ OtherLine

SpecParser == InitParser /\ [][NextParser]_vars

-----------------------------------------------------------------------------
(* parse_file on logs that name a table the snapshot does not hold and on    *)
(* files whose reading fails part way                                        *)

ReaderLines ==
    {"BEGIN", "COMMIT/*!*/;", "ROLLBACK/*!*/;", InsertLine, OtherTableLine, SetLine,
     ColumnLine, Column2Line, ReadError}

\* The items the line iterator yields, a failed read among them
ReaderFiles == UNION {[1..n -> ReaderLines] : n \in 0..MaxReadLines}

InitReader ==
    /\ schema = UsersSchema
    /\ store = EmptyBag
    /\ operations = << >>
    /\ \E file \in ReaderFiles :
        parser = [lines |-> file, next |-> 0,
                  current_timestamp |-> None, current_position |-> None,
                  in_transaction |-> FALSE,
                  pending_operations |-> << >>, pending_lines |-> << >>,
                  operation_lines |-> << >>, parsed_at |-> {}, failed_at |-> None]
    /\ current_position = 0
    /\ hist0 = EmptyBag
    /\ calls = << >>
    /\ lastNav = None
    /\ navCount = 0
    /\ norm = None

\* lines.next() yields Some(Err(_)): the while-let pattern does not match, the
\* loop ends and parse_file goes on to its last line.  failed_at records the
\* number of the line whose reading failed (history); nothing more is read.
ReadFails ==
    /\ parser.next < Len(parser.lines)
    /\ parser.lines[parser.next + 1] = ReadError
    /\ parser' = [parser EXCEPT !.next = Len(parser.lines),
                                !.failed_at = Some(parser.next + 1)]
    /\ UNCHANGED <<schema, store, calls, operations, current_position, hist0, lastNav,
                   navCount, norm>>

NextReader == BeginLine \/ CommitLine \/ RollbackLine \/ OtherLine \/ ReadFails

SpecReader == InitReader /\ [][NextReader]_vars

\* Longer streams, for the choice of the window: one row inserted and deleted
\* in turn, stamped in log order with times before the window, on its two
\* bounds, inside it and after it
WindowOrder ==
    <<"251020 21:00:00", "251020 22:30:00", "251021 0:15:00", "251021 0:30:00",
      "251021 2:00:00">>

RECURSIVE WindowStamps(_, _)
\* The stamps of n operations in log order, none earlier than WindowOrder[from]
WindowStamps(n, from) ==
    IF n = 0 THEN {<< >>}
    ELSE UNION {{<<WindowOrder[j]>> \o s : s \in WindowStamps(n - 1, j)} :
                    j \in from..Len(WindowOrder)}

InsertDelete(n) ==
    [i \in 1..n |->
        IF i % 2 = 1
        THEN BinlogOperation("Insert", UsersSchema.columns, None, Some(<<"1", "'a'">>),
                             None, None)
        ELSE BinlogOperation("Delete", UsersSchema.columns, Some(<<"1", "'a'">>), None,
                             None, None)]

InitWindow ==
    /\ schema = UsersSchema
    /\ hist0 = EmptyBag
    /\ \E n \in 0..MaxWindowOps :
        \E s \in WindowStamps(n, 1) : operations = Stamped(InsertDelete(n), s)
    /\ \E k \in {0, Len(operations)}, t \in SnapshotTimestamps :
        /\ store = StateAfter(hist0, schema, operations, k)
        /\ norm = [phase |-> "start", snapshot_timestamp |-> t, snapshot_at |-> k,
                   window_ops |-> << >>, tx_zero_idx |-> 0, todo |-> << >>,
                   applied_forward |-> 0, skipped_forward |-> 0,
                   applied_inverted |-> 0, skipped_inverted |-> 0, touched |-> {},
                   probes |-> << >>, results |-> << >>]
    /\ current_position = 0
    /\ calls = << >>
    /\ lastNav = None
    /\ navCount = 0
    /\ parser = None

SpecWindow == InitWindow /\ [][NextNormalise]_vars

-----------------------------------------------------------------------------
(* invert on its own: any value of the struct, inverted again and again      *)

\* Every value of BinlogOperation over the table: each kind with each image
\* present or absent, stamped or not
AnyOperations ==
    {BinlogOperation(kind, UsersSchema.columns, before, after, ts, pos) :
        kind \in OperationTypes,
        before \in {None} \cup {Some(im) : im \in Images(UsersSchema)},
        after \in {None} \cup {Some(im) : im \in Images(UsersSchema)},
        ts \in {None, Some("251020 9:00:00")},
        pos \in {None, Some(100)}}

\* operations holds the value and, after it, each result of invert
InitInvert ==
    /\ schema = UsersSchema
    /\ store = EmptyBag
    /\ \E op \in AnyOperations : operations = <<op>>
    /\ current_position = 0
    /\ hist0 = EmptyBag
    /\ calls = << >>
    /\ lastNav = None
    /\ navCount = 0
    /\ norm = None
    /\ parser = None

Invert ==
    /\ Len(operations) <= MaxInverts
    /\ operations' = Append(operations, invert(operations[Len(operations)]))
    /\ UNCHANGED <<schema, store, calls, current_position, hist0, lastNav, navCount,
                   norm, parser>>

NextInvert == Invert

SpecInvert == InitInvert /\ [][NextInvert]_vars

-----------------------------------------------------------------------------
(* snapshot_manager.rs: goto_timestamp, on streams that carry timestamps.    *)

\* The timestamp texts of the model in the order str::cmp gives them (byte by
\* byte: "251021 0:..." sorts before "251021 2:...")
ByteOrder ==
    <<"251020 21:00:00", "251020 22:30:00", "251020 23:30:00",
      "251021 0:15:00", "251021 0:30:00", "251021 2:00:00">>

\* str::cmp as i64: Less is -1, Equal is 0, Greater is 1
cmp(a, b) ==
    LET ra == CHOOSE i \in 1..Len(ByteOrder) : ByteOrder[i] = a
        rb == CHOOSE i \in 1..Len(ByteOrder) : ByteOrder[i] = b
    IN IF ra < rb THEN 0 - 1 ELSE IF ra = rb THEN 0 ELSE 1

abs(x) == IF x < 0 THEN 0 - x ELSE x

\* i64::MAX.  Every diff the scan computes is 0 or 1, so the largest integer
\* of the checker stands for it.
i64_MAX == 2147483647

RECURSIVE closest_scan(_, _, _, _, _)
\* The for loop of goto_timestamp from 0-based index idx on: the closest_idx
\* it ends with
closest_scan(ops, idx, closest_idx, closest_diff, target_timestamp) ==
    IF idx >= Len(ops) THEN closest_idx
    ELSE LET op == ops[idx + 1]
         IN IF ~IsSome(op.timestamp)
            THEN closest_scan(ops, idx + 1, closest_idx, closest_diff, target_timestamp)
            ELSE IF Unwrap(op.timestamp) = target_timestamp
            THEN idx
            ELSE LET diff == abs(cmp(Unwrap(op.timestamp), target_timestamp))
                 IN IF diff < closest_diff
                    THEN closest_scan(ops, idx + 1, idx, diff, target_timestamp)
                    ELSE closest_scan(ops, idx + 1, closest_idx, closest_diff,
                                      target_timestamp)

goto_timestamp(c, ops, sch, target_timestamp) ==
    goto_position(c, ops, sch, closest_scan(ops, 0, 0, i64_MAX, target_timestamp))

\* Streams of at most n operations whose first operations may precede every
\* header (timestamp None) and whose later ones carry the header times
TimedStreams(n) ==
    UNION {{[i \in 1..m |-> IF i <= u THEN InsertDelete(m)[i]
                            ELSE Stamped(InsertDelete(m), s)[i]] :
                s \in WindowStamps(m, 1), u \in 0..m} : m \in 0..n}

InitTimed ==
    /\ schema = UsersSchema
    /\ hist0 = EmptyBag
    /\ operations \in TimedStreams(MaxOps)
    /\ current_position \in 0..(IF operations = << >> THEN 0 ELSE Len(operations) - 1)
    /\ store = StateAfter(hist0, schema, operations,
                          Min(current_position + 1, Len(operations)))
    /\ lastNav = None
    /\ navCount = 0
    /\ calls = << >>
    /\ norm = None
    /\ parser = None

GotoTimestamp ==
    \E target_timestamp \in Range(WindowOrder) :
        Navigate("goto_timestamp", target_timestamp,
                 goto_timestamp(Cursor, operations, schema, target_timestamp))

NextTimed == GotoTimestamp

SpecTimed == InitTimed /\ [][NextTimed]_vars

-----------------------------------------------------------------------------
(* generate_sql on its own, as test_generate_update_sql and                  *)
(* test_generate_delete_sql call it: any operation over the table            *)

InitSql ==
    /\ schema \in Schemas
    /\ operations \in {<<op>> : op \in Operations(schema)}
    /\ calls = << >>
    /\ store = EmptyBag
    /\ current_position = 0
    /\ hist0 = EmptyBag
    /\ lastNav = None
    /\ navCount = 0
    /\ norm = None
    /\ parser = None

GenerateSql ==
    /\ calls = << >>
    /\ calls' = <<[op |-> operations[1], sql |-> sql_text(generate_sql(operations[1]))]>>
    /\ UNCHANGED <<schema, store, cursorVars, norm, parser>>

NextSql == GenerateSql

SpecSql == InitSql /\ [][NextSql]_vars

-----------------------------------------------------------------------------
(* BinlogTimestamp on its own: a text is parsed and the result written back   *)
(* in the binlog format, as test_parse_valid_timestamp and                    *)
(* test_parse_invalid_format do                                               *)

\* Date parts: well formed, too short, signed month, month 13, 30 February
DateParts ==
    {<<"2", "5", "1", "0", "2", "0">>,
     <<"2", "5", "1", "1", "0", "8">>,
     <<"2", "5", "1", "0">>,
     <<"2", "5", "+", "1", "2", "0">>,
     <<"2", "5", "1", "3", "2", "0">>,
     <<"2", "5", "0", "2", "3", "0">>}
\* What stands between date and time: one space, nothing, two spaces
Separators == {<<" ">>, << >>, <<" ", " ">>}
\* Time parts: well formed, one-digit hour, signed hour, hour 25, no seconds,
\* a fourth field, no colons
TimeParts ==
    {<<"2", "1", ":", "0", "0", ":", "0", "0">>,
     <<"1", "7", ":", "0", "3", ":", "0", "0">>,
     <<"0", ":", "1", "5", ":", "0", "0">>,
     <<"+", "9", ":", "0", "0", ":", "0", "0">>,
     <<"2", "5", ":", "0", "0", ":", "0", "0">>,
     <<"1", "7", ":", "0", "3">>,
     <<"1", "7", ":", "0", "3", ":", "0", "0", ":", "0", "0">>,
     <<"1", "7", "0", "3", "0", "0">>}

TimestampInputs == {d \o sep \o t : d \in DateParts, sep \in Separators, t \in TimeParts}

\* calls holds the one call made: the characters and text of the argument,
\* what parse returned and, if it was Ok, what to_binlog_format made of it
InitTimestamp ==
    /\ operations \in {<<chars>> : chars \in TimestampInputs}
    /\ calls = << >>
    /\ schema = UsersSchema
    /\ store = EmptyBag
    /\ current_position = 0
    /\ hist0 = EmptyBag
    /\ lastNav = None
    /\ navCount = 0
    /\ norm = None
    /\ parser = None

ParseAndFormat ==
    /\ calls = << >>
    /\ LET result == parse_chars(operations[1])
       IN calls' = <<[chars |-> operations[1],
                      text |-> Text(operations[1]),
                      result |-> result,
                      formatted |-> IF result.ok THEN Some(to_binlog_format(result.value))
                                    ELSE None]>>
    /\ UNCHANGED <<schema, store, cursorVars, norm, parser>>

NextTimestamp == ParseAndFormat

SpecTimestamp == InitTimestamp /\ [][NextTimestamp]_vars

-----------------------------------------------------------------------------
(* normalize on streams whose operations carry any timestamp at all: inside   *)
(* the window, outside it, none, or a text parse rejects, in any order        *)

FrameTimestamps ==
    {None, Some("251020 23:30:00"), Some("251021 2:00:00"), Some("251020 25:00:00")}

InitFrame ==
    /\ schema = UsersSchema
    /\ hist0 = EmptyBag
    /\ \E n \in 0..MaxFrameOps :
        \E s \in [1..n -> FrameTimestamps] :
            operations = [i \in 1..n |-> [InsertDelete(n)[i] EXCEPT !.timestamp = s[i]]]
    /\ \E k \in {0, Len(operations)} :
        /\ store = StateAfter(hist0, schema, operations, k)
        /\ norm = [phase |-> "start", snapshot_timestamp |-> "251020 23:30:00",
                   snapshot_at |-> k,
                   window_ops |-> << >>, tx_zero_idx |-> 0, todo |-> << >>,
                   applied_forward |-> 0, skipped_forward |-> 0,
                   applied_inverted |-> 0, skipped_inverted |-> 0, touched |-> {},
                   probes |-> << >>, results |-> << >>]
    /\ current_position = 0
    /\ calls = << >>
    /\ lastNav = None
    /\ navCount = 0
    /\ parser = None

SpecFrame == InitFrame /\ [][NextNormalise]_vars

\* Streams of at most n operations of which some are on a table the snapshot
\* does not hold
MixedStreams(n) ==
    UNION {{[i \in 1..m |-> IF i \in other
                            THEN [InsertDelete(m)[i] EXCEPT !.table_name = OtherTableName]
                            ELSE InsertDelete(m)[i]] : other \in SUBSET (1..m)} :
            m \in 0..n}

\* normalize is given a stream (it takes any) in which some operations are
\* on a table the snapshot does not hold
InitAbort ==
    /\ schema = UsersSchema
    /\ hist0 = EmptyBag
    /\ \E ops \in MixedStreams(MaxFrameOps) :
        \E s \in [1..Len(ops) -> {"251020 23:30:00", "251021 2:00:00"}] :
            operations = Stamped(ops, s)
    /\ \E k \in 0..Min(1, Len(operations)) :
        /\ store = StateAfter(hist0, schema, InsertDelete(k), k)
        /\ norm = [phase |-> "start", snapshot_timestamp |-> "251020 23:30:00",
                   snapshot_at |-> k,
                   window_ops |-> << >>, tx_zero_idx |-> 0, todo |-> << >>,
                   applied_forward |-> 0, skipped_forward |-> 0,
                   applied_inverted |-> 0, skipped_inverted |-> 0, touched |-> {},
                   probes |-> << >>, results |-> << >>]
    /\ current_position = 0
    /\ calls = << >>
    /\ lastNav = None
    /\ navCount = 0
    /\ parser = None

\* normalize on streams in which a conditional apply may fail
SpecAbort == InitAbort /\ [][NextNormalise]_vars

-----------------------------------------------------------------------------
(* Properties of the applier (SpecApplier) *)

\* The rows of st that agree with an image on its non-NULL columns: the rows
\* the probe's WHERE clause selects (none when the image is NULL throughout)
Identified(st, sch, image) ==
    IF \A i \in 1..Len(image) : image[i] = "NULL" THEN {}
    ELSE {r \in DOMAIN st :
            \A i \in 1..Len(image) :
                image[i] # "NULL" => r[i] = StoreValue(image[i], sch.types[i])}

\* The image an operation is identified by: after for Insert, before otherwise
IdentifyingImage(op) ==
    IF op.operation_type = "Insert" THEN Unwrap(op.after_values)
    ELSE Unwrap(op.before_values)

Unchanged(c) == c.executed = None /\ c.after = c.before

\* C5: calling apply_operation_conditionally(op) twice in a row mutates the
\* store at most once: if the first call applied op, the second call returns
\* false (should_apply is false) and leaves the store unchanged.
C5_SecondApplyIsSkipped ==
    \A i \in 1..(Len(calls) - 1) :
        (calls[i + 1].op = calls[i].op /\ calls[i].applied)
            => (~calls[i + 1].should /\ ~calls[i + 1].applied /\ Unchanged(calls[i + 1]))

C7_InvertRestores ==
    \A i \in 1..(Len(calls) - 1) :
        (calls[i + 1].op = invert(calls[i].op) /\ calls[i].applied)
            => (calls[i + 1].applied /\ calls[i + 1].after = calls[i].before)

\* C8: should_apply follows the decision table.  The probe identifies a row
\* exactly when some row agrees with the identifying image on its non-NULL
\* columns, and the row it returns is one of those; an Insert is applied when
\* no row is identified or the identified row differs from the after image and
\* skipped when it equals it; an Update or Delete is applied exactly when a
\* row is identified and equals the before image.
C8_DecisionTable ==
    \A i \in 1..Len(calls) :
        LET c   == calls[i]
            ids == Identified(c.before, schema, IdentifyingImage(c.op))
        IN  /\ c.current = None <=> ids = {}
            /\ c.current # None =>
                    \E r \in ids :
                        Unwrap(c.current) = [k \in 1..Len(r) |-> reliteralise(r[k], schema.types[k])]
            /\ c.op.operation_type = "Insert" =>
                    (c.should <=> (c.current = None \/ Unwrap(c.current) # Unwrap(c.op.after_values)))
            /\ c.op.operation_type \in {"Update", "Delete"} =>
                    (c.should <=> (c.current # None /\ Unwrap(c.current) = Unwrap(c.op.before_values)))

C8_Witness ==
    \E i \in 1..Len(calls) :
        /\ calls[i].op.operation_type = "Delete"
        /\ calls[i].current # None
        /\ calls[i].current # calls[i].op.before_values
        /\ ~calls[i].should

\* C9: the boolean apply_operation_conditionally returns tells whether the
\* store was mutated: true only if the store's contents differ afterwards,
\* and false only with no statement executed and the store unchanged.
C9_ReturnTellsMutation ==
    \A i \in 1..Len(calls) :
        /\ calls[i].applied => calls[i].after # calls[i].before
        /\ ~calls[i].applied => Unchanged(calls[i])

-----------------------------------------------------------------------------
(* Properties of the cursor (SpecCursor) *)

\* The table the history gives after operations[0..=p]
ExpectedAt(p) == StateAfter(hist0, schema, operations, Min(p + 1, Len(operations)))

\* C2: cursor state invariant.  Starting from a store equal to the state at
\* the initial position, after any sequence of navigation calls the store
\* equals the state obtained by applying the forward orientation of every
\* operation at index <= current_position and of no later one.
C2_StoreMatchesPosition ==
    operations # << >> => store = ExpectedAt(current_position)

\* C3: for every cursor state with current_position + 1 < |stream|,
\* step_forward followed immediately by step_backward leaves
\* current_position and the store as they were before the two calls.
C3_ForwardBackwardRoundTrip ==
    [][(/\ IsSome(lastNav) /\ IsSome(lastNav')
        /\ navCount' = navCount + 1
        /\ Unwrap(lastNav).call = "step_forward"
        /\ Unwrap(lastNav).ret = TRUE
        /\ Unwrap(lastNav').call = "step_backward")
            => (/\ current_position' = Unwrap(lastNav).pre.current_position
                /\ store' = Unwrap(lastNav).pre.store)]_vars

\* C4: for all valid positions p and q, goto_position(p); goto_position(q);
\* goto_position(p) leaves current_position and the store equal to what a
\* single goto_position(p) from the same starting state leaves.
C4_GotoThereAndBack ==
    [][(/\ IsSome(lastNav) /\ IsSome(lastNav')
        /\ navCount' = navCount + 1
        /\ Unwrap(lastNav).call = "goto_position"
        /\ Unwrap(lastNav).ret = "Ok"
        /\ Unwrap(lastNav').call = "goto_position"
        /\ Unwrap(lastNav').ret = "Ok")
            => \A back \in goto_position([store |-> store',
                                          current_position |-> current_position'],
                                         operations, schema, Unwrap(lastNav).arg) :
                    back.c \in {single.c : single \in
                                    goto_position(Unwrap(lastNav).pre, operations, schema,
                                                  Unwrap(lastNav).arg)}]_vars

-----------------------------------------------------------------------------
(* Properties of the normaliser (SpecNormalise) *)

\* The snapshot is the state after a prefix of the stream whose last
\* operation lies in the window
SnapshotInWindow ==
    \E j \in 1..Len(norm.window_ops) : norm.window_ops[j] = norm.snapshot_at - 1

\* C1: for every valid history and every snapshot equal to the state after a
\* prefix of the stream ending inside the window, normalize leaves the store
\* equal to the state obtained by applying operations[0..=tx_zero_idx] in
\* order to the history's initial state.
C1_NormalizeReachesTxZero ==
    (norm.phase = "done" /\ SnapshotInWindow)
        => store = StateAfter(hist0, schema, operations, norm.tx_zero_idx + 1)

\* The texts for whose characters BinlogTimestamp::parse has no Ok
UnparsableTexts == {Text(c) : c \in {x \in BinlogTexts : ~parse_chars(x).ok}}

Unparsable(timestamp) == timestamp \in UnparsableTexts

\* The store is the snapshot that was loaded
StoreIsSnapshot == store = StateAfter(hist0, schema, operations, norm.snapshot_at)

\* C28: if the snapshot timestamp T cannot be parsed, normalize returns an
\* error before executing any probe or statement against the store, so the
\* store is exactly the loaded snapshot.
C28_UnparsableSnapshotTimestamp ==
    (Unparsable(norm.snapshot_timestamp) /\ norm.phase # "start") =>
        /\ norm.phase = "error"
        /\ StoreIsSnapshot
        /\ norm.applied_forward + norm.skipped_forward = 0
        /\ norm.applied_inverted + norm.skipped_inverted = 0

\* normalize returned the error with a stream of several stamped operations
\* at hand and a snapshot that holds a row
C28_Witness ==
    /\ norm.phase = "error"
    /\ Len(operations) >= 2
    /\ store # EmptyBag

-----------------------------------------------------------------------------
(* Properties of the parser (SpecParser) *)

\* parse_file has read every line and returns the operations vector
Returned == parser.next = Len(parser.lines)

\* Line o of the file lies between a BEGIN and the ROLLBACK that closes it:
\* no BEGIN, COMMIT or ROLLBACK stands between the two
RolledBack(ls, o) ==
    \E b \in 1..(o - 1), r \in (o + 1)..Len(ls) :
        /\ begin_regex(ls[b])
        /\ rollback_regex(ls[r])
        /\ \A j \in (b + 1)..(r - 1) :
            ~(begin_regex(ls[j]) \/ commit_regex(ls[j]) \/ rollback_regex(ls[j]))

\* C10: for every input log, no operation parsed between a BEGIN and the
\* ROLLBACK that closes it appears in the stream returned by parse_file.
C10_RolledBackNeverReturned ==
    Returned => \A i \in 1..Len(operations) :
                    ~RolledBack(parser.lines, parser.operation_lines[i])

\* An operation was parsed inside a rolled-back transaction, and the stream
\* that is returned holds another operation
C10_Witness ==
    /\ Returned
    /\ \E o \in parser.parsed_at : RolledBack(parser.lines, o)
    /\ operations # << >>

\* A line that opens or closes a transaction
TransactionMark(line) == begin_regex(line) \/ commit_regex(line) \/ rollback_regex(line)

\* Line o lies between the BEGIN on line b and the COMMIT that closes it
CommittedIn(ls, o, b) ==
    /\ b < o
    /\ begin_regex(ls[b])
    /\ \E c \in (o + 1)..Len(ls) :
        /\ commit_regex(ls[c])
        /\ \A j \in (b + 1)..(c - 1) : ~TransactionMark(ls[j])

\* The kind of operation a statement line starts
StatementKind(line) ==
    CASE IsSome(update_regex(line)) -> "Update"
      [] IsSome(insert_regex(line)) -> "Insert"
      [] IsSome(delete_regex(line)) -> "Delete"
      [] OTHER -> "none"

\* The places of the returned stream that hold the operation of line o
PlacesOf(o) == {i \in 1..Len(operations) : parser.operation_lines[i] = o}

\* C11: the operations parsed between a BEGIN and the COMMIT that closes it
\* are appended to the output stream exactly once, contiguously and in the
\* order they appeared in the log, and the output stream as a whole lists
\* committed transactions in log order.
C11_CommittedInLogOrder ==
    Returned =>
        LET ls == parser.lines
            committed == {o \in 1..Len(ls) :
                            /\ contains_statement(ls[o])
                            /\ \E b \in 1..Len(ls) : CommittedIn(ls, o, b)}
        IN /\ \A o \in committed :
                /\ Cardinality(PlacesOf(o)) = 1
                /\ \A i \in PlacesOf(o) :
                    operations[i].operation_type = StatementKind(ls[o])
           /\ \A o1, o2 \in committed : \A i1 \in PlacesOf(o1), i2 \in PlacesOf(o2) :
                /\ o1 < o2 => i1 < i2
                /\ \A b \in 1..Len(ls) :
                    (CommittedIn(ls, o1, b) /\ CommittedIn(ls, o2, b) /\ i1 < i2)
                        => \A k \in i1..i2 : CommittedIn(ls, parser.operation_lines[k], b)

\* Two committed transactions were read, one of them with two operations
C11_Witness ==
    /\ Returned
    /\ \E b1, b2 \in 1..Len(parser.lines) :
        /\ b1 < b2
        /\ \E o1, o2 \in 1..Len(parser.lines) :
            /\ o1 < o2
            /\ contains_statement(parser.lines[o1])
            /\ contains_statement(parser.lines[o2])
            /\ CommittedIn(parser.lines, o1, b1)
            /\ CommittedIn(parser.lines, o2, b1)
        /\ \E o3 \in 1..Len(parser.lines) :
            /\ contains_statement(parser.lines[o3])
            /\ CommittedIn(parser.lines, o3, b2)

\* A transaction is open when line o is read: a BEGIN stands before it with
\* no COMMIT or ROLLBACK in between
OpenAt(ls, o) ==
    \E b \in 1..(o - 1) :
        /\ begin_regex(ls[b])
        /\ \A j \in (b + 1)..(o - 1) : ~(commit_regex(ls[j]) \/ rollback_regex(ls[j]))

\* C12: an operation that appears in the log while no transaction is open is
\* tolerated but is not included in the stream returned by parse_file.
C12_OutsideTransactionNotReturned ==
    Returned => \A i \in 1..Len(operations) :
                    OpenAt(parser.lines, parser.operation_lines[i])

\* Line o was buffered in a transaction that a further BEGIN on line b2 cut
\* short: BEGIN, then o, then BEGIN again, with no COMMIT or ROLLBACK between
CutShortBy(ls, o, b2) ==
    /\ o < b2
    /\ begin_regex(ls[b2])
    /\ \E b1 \in 1..(o - 1) :
        /\ begin_regex(ls[b1])
        /\ \A j \in (b1 + 1)..(b2 - 1) : ~TransactionMark(ls[j])

\* C13: a BEGIN encountered while a transaction is already open discards the
\* operations buffered so far without emitting them: they never appear in the
\* output, even if a COMMIT follows, and only operations parsed after the
\* latest BEGIN are flushed by that COMMIT.
C13_NestedBeginDiscards ==
    Returned =>
        LET ls == parser.lines
        IN /\ \A o \in 1..Len(ls) :
                (contains_statement(ls[o]) /\ \E b2 \in 1..Len(ls) : CutShortBy(ls, o, b2))
                    => PlacesOf(o) = {}
           /\ \A i \in 1..Len(operations) :
                OpenAt(ls, parser.operation_lines[i])
                    => \E b \in 1..Len(ls) : CommittedIn(ls, parser.operation_lines[i], b)

\* BEGIN, a statement, BEGIN again, a statement, COMMIT: the second statement
\* alone is returned
C13_Witness ==
    /\ Returned
    /\ \E o1, o2, b2 \in 1..Len(parser.lines) :
        /\ contains_statement(parser.lines[o1])
        /\ CutShortBy(parser.lines, o1, b2)
        /\ contains_statement(parser.lines[o2])
        /\ CommittedIn(parser.lines, o2, b2)
        /\ PlacesOf(o2) # {}

RECURSIVE BlockEnd(_, _)
\* The last line of the statement that starts on line o: the lines after it
\* that start with ### and start no other statement
BlockEnd(ls, o) ==
    IF o < Len(ls) /\ starts_with_hashes(ls[o + 1]) /\ ~contains_statement(ls[o + 1])
    THEN BlockEnd(ls, o + 1)
    ELSE o

\* The column numbers the @K=V lines of the statement on line o supply
SuppliedColumns(ls, o) ==
    {Unwrap(column_value_regex(ls[j])).col_num :
        j \in {x \in (o + 1)..BlockEnd(ls, o) : IsSome(column_value_regex(ls[x]))}}

\* C14: for every operation returned by parse_file, each image that is present
\* has exactly as many entries as the operation's columns list (the probed
\* schema of its table), regardless of how many @K=V lines the log supplied or
\* which K values they used; columns with no @K line hold the literal NULL.
C14_ImagesAsLongAsColumns ==
    Returned =>
        \A i \in 1..Len(operations) :
            LET op == operations[i]
                images == Range(op.before_values) \cup Range(op.after_values)
            IN /\ op.columns = schema.columns
               /\ \A im \in images :
                    /\ Len(im) = Len(op.columns)
                    /\ \A k \in 1..Len(im) :
                        k \notin SuppliedColumns(parser.lines, parser.operation_lines[i])
                            => im[k] = "NULL"

\* A returned operation whose statement supplied a column number beyond the
\* schema and left a column of the schema out
C14_Witness ==
    /\ Returned
    /\ \E i \in 1..Len(operations) :
        LET supplied == SuppliedColumns(parser.lines, parser.operation_lines[i])
        IN /\ \E k \in supplied : k > Len(schema.columns)
           /\ \E k \in 1..Len(schema.columns) : k \notin supplied
           /\ \E k \in 1..Len(schema.columns) : k \in supplied

\* C15: for every operation returned by parse_file, the before image is
\* present exactly when the kind is Update or Delete and the after image is
\* present exactly when the kind is Insert or Update; every parsed Insert has
\* no before image and every parsed Delete has no after image.
C15_ImagesPresentByKind ==
    Returned =>
        \A i \in 1..Len(operations) :
            /\ IsSome(operations[i].before_values)
                <=> operations[i].operation_type \in {"Update", "Delete"}
            /\ IsSome(operations[i].after_values)
                <=> operations[i].operation_type \in {"Insert", "Update"}

\* The returned stream holds an operation of each kind
C15_Witness ==
    /\ Returned
    /\ \A kind \in OperationTypes :
        \E i \in 1..Len(operations) : operations[i].operation_type = kind

-----------------------------------------------------------------------------
(* Properties of invert (SpecInvert) *)

\* The images an operation of its kind carries, and no other
WellFormed(op) ==
    /\ IsSome(op.before_values) <=> op.operation_type \in {"Update", "Delete"}
    /\ IsSome(op.after_values) <=> op.operation_type \in {"Insert", "Update"}

\* C16: invert is an involution: for every Operation value O (any kind, any
\* combination of present or absent before/after images), O.invert().invert()
\* equals O in every field.
C16_InvertInvolution ==
    \A i \in 1..(Len(operations) - 2) : operations[i + 2] = operations[i]

\* C16, amended: for every Operation value O that carries the images of its
\* kind and no other (before exactly for Update and Delete, after exactly for
\* Insert and Update), O.invert().invert() equals O in every field.
C16_InvertInvolutionWellFormed ==
    \A i \in 1..(Len(operations) - 2) :
        WellFormed(operations[i]) => operations[i + 2] = operations[i]

\* A stamped Insert with its after image has been inverted twice
C16_Witness ==
    /\ Len(operations) >= 3
    /\ WellFormed(operations[1])
    /\ operations[1].operation_type = "Insert"
    /\ IsSome(operations[1].timestamp)
    /\ operations[2].operation_type = "Delete"

\* C33: invert maps an Insert with after image x to a Delete with before
\* image x and no after image, a Delete with before image x to an Insert with
\* after image x and no before image, and an Update b->a to an Update a->b;
\* timestamp, position, database, table name and columns are identical in the
\* result.
C33_InvertByKind ==
    \A i \in 1..(Len(operations) - 1) :
        LET o == operations[i]
            r == operations[i + 1]
        IN /\ (o.operation_type = "Insert" /\ IsSome(o.after_values)) =>
                /\ r.operation_type = "Delete"
                /\ r.before_values = o.after_values
                /\ r.after_values = None
           /\ (o.operation_type = "Delete" /\ IsSome(o.before_values)) =>
                /\ r.operation_type = "Insert"
                /\ r.after_values = o.before_values
                /\ r.before_values = None
           /\ (o.operation_type = "Update" /\ IsSome(o.before_values)
                    /\ IsSome(o.after_values)) =>
                /\ r.operation_type = "Update"
                /\ r.before_values = o.after_values
                /\ r.after_values = o.before_values
           /\ r.timestamp = o.timestamp
           /\ r.position = o.position
           /\ r.database = o.database
           /\ r.table_name = o.table_name
           /\ r.columns = o.columns

\* A stamped Update whose two images differ has been inverted
C33_Witness ==
    /\ Len(operations) >= 2
    /\ operations[1].operation_type = "Update"
    /\ IsSome(operations[1].before_values)
    /\ IsSome(operations[1].after_values)
    /\ operations[1].before_values # operations[1].after_values
    /\ IsSome(operations[1].timestamp)
    /\ IsSome(operations[1].position)
    /\ operations[2].before_values = operations[1].after_values

\* The call was given an operation on a table whose type probe returns nothing
TypeProbeEmpty(c) == get_table_schema(schema, c.op.table_name).types = << >>

\* C35: when the applier cannot match an operation to the store's schema (the
\* table's type probe returns nothing, or the row-probe query cannot be
\* prepared), apply_operation_conditionally skips the operation (returns
\* Ok(false), executes no statement) for every operation kind, instead of
\* returning an error.
C35_MismatchIsSkipped ==
    \A i \in 1..Len(calls) :
        TypeProbeEmpty(calls[i]) =>
            /\ calls[i].ok
            /\ ~calls[i].applied
            /\ calls[i].executed = None

\* The instant of the snapshot_timestamp argument
SnapshotInstant == parse(norm.snapshot_timestamp).value.datetime

\* The 0-based indices of the operations stamped within [T-H, T+H]
WithinWindow ==
    {i \in 0..(Len(operations) - 1) :
        LET t == parse(Unwrap(operations[i + 1].timestamp)).value.datetime
        IN /\ SnapshotInstant - window_hours * 3600 <= t
           /\ t <= SnapshotInstant + window_hours * 3600}

\* normalize has chosen the window: it is in, or past, its loops
WindowChosen == norm.phase \in {"forward", "reverse", "done"}

\* C17: normalize selects tx_zero_idx = window[floor(|window|/2)], where
\* window is the list, in stream order, of the indices of operations whose
\* timestamp t satisfies T-H <= t <= T+H (both bounds inclusive); for 10
\* in-window operations it picks window[5].
C17_TxZeroIsWindowMidpoint ==
    (WindowChosen /\ WithinWindow # {}) =>
        LET w == norm.window_ops
        IN /\ Range(w) = WithinWindow
           /\ \A i, j \in 1..Len(w) : i < j => w[i] < w[j]
           /\ norm.tx_zero_idx = w[(Len(w) \div 2) + 1]
           /\ Len(w) = 10 => norm.tx_zero_idx = w[6]

\* Ten operations are in the window, the first on its lower bound and the
\* last on its upper bound
C17_Witness ==
    /\ WindowChosen
    /\ Len(norm.window_ops) = 10
    /\ Unwrap(operations[1].timestamp) = "251020 22:30:00"
    /\ Unwrap(operations[10].timestamp) = "251021 0:30:00"

\* C18: when no operation's timestamp falls inside [T-H, T+H], normalize
\* returns tx_zero_idx = max(0, |stream|-1) and executes no statement against
\* the store.
C18_EmptyWindowNoMutation ==
    (norm.phase = "done" /\ WithinWindow = {}) =>
        /\ norm.tx_zero_idx = (IF Len(operations) >= 1 THEN Len(operations) - 1 ELSE 0)
        /\ current_position = norm.tx_zero_idx
        /\ store = StateAfter(hist0, schema, operations, norm.snapshot_at)
        /\ norm.applied_forward + norm.skipped_forward = 0
        /\ norm.applied_inverted + norm.skipped_inverted = 0

\* normalize returned on a stream of several operations, all outside the
\* window, and a snapshot that holds a row
C18_Witness ==
    /\ norm.phase = "done"
    /\ WithinWindow = {}
    /\ Len(operations) >= 3
    /\ store # EmptyBag

-----------------------------------------------------------------------------
(* Properties of single steps of the cursor (SpecCursor) *)

\* The latest navigation call was the given one
LastCallWas(call) == IsSome(lastNav) /\ Unwrap(lastNav).call = call

\* The stores one conditional application of op to st may leave
StoresAfterApplying(st, op) ==
    {out.after : out \in apply_operation_conditionally(st, schema, op)}

\* C19: step_forward: if current_position+1 < |stream| it conditionally
\* applies operations[current_position+1], increments current_position by
\* exactly one and returns true; otherwise it returns false, leaves
\* current_position unchanged and does not touch the store.
C19_StepForwardContract ==
    LastCallWas("step_forward") =>
        LET pre == Unwrap(lastNav).pre
            ret == Unwrap(lastNav).ret
        IN IF pre.current_position + 1 < Len(operations)
           THEN /\ ret = TRUE
                /\ current_position = pre.current_position + 1
                /\ store \in StoresAfterApplying(pre.store,
                                                 operations[pre.current_position + 2])
           ELSE /\ ret = FALSE
                /\ current_position = pre.current_position
                /\ store = pre.store

\* step_forward has applied an operation and changed the store
C19_Witness ==
    /\ LastCallWas("step_forward")
    /\ Unwrap(lastNav).ret = TRUE
    /\ store # Unwrap(lastNav).pre.store
    /\ current_position = Len(operations) - 1

\* C20: step_backward: if current_position > 0 it conditionally applies the
\* inverse of operations[current_position], decrements current_position by
\* exactly one and returns true; at position 0 it returns false, leaves
\* current_position unchanged and does not touch the store.
C20_StepBackwardContract ==
    LastCallWas("step_backward") =>
        LET pre == Unwrap(lastNav).pre
            ret == Unwrap(lastNav).ret
        IN IF pre.current_position > 0
           THEN /\ ret = TRUE
                /\ current_position = pre.current_position - 1
                /\ store \in StoresAfterApplying(pre.store,
                                                 invert(operations[pre.current_position + 1]))
           ELSE /\ ret = FALSE
                /\ current_position = pre.current_position
                /\ store = pre.store

\* step_backward has applied an inverse and changed the store, down to position 0
C20_Witness ==
    /\ LastCallWas("step_backward")
    /\ Unwrap(lastNav).ret = TRUE
    /\ store # Unwrap(lastNav).pre.store
    /\ current_position = 0

RECURSIVE StoresAfterForward(_, _, _)
\* The stores that applying operations[from+1..=to] (0-based) in order,
\* each conditionally, may leave
StoresAfterForward(st, from, to) ==
    IF from >= to THEN {st}
    ELSE UNION {StoresAfterForward(mid, from + 1, to) :
                    mid \in StoresAfterApplying(st, operations[from + 2])}

RECURSIVE StoresAfterBackward(_, _, _)
\* The stores that applying the inverses of operations[to+1..=from] (0-based),
\* newest first, each conditionally, may leave
StoresAfterBackward(st, from, to) ==
    IF from <= to THEN {st}
    ELSE UNION {StoresAfterBackward(mid, from - 1, to) :
                    mid \in StoresAfterApplying(st, invert(operations[from + 1]))}

\* C21: goto_position(p) with p >= |stream| returns an error and changes
\* neither current_position nor the store; with p < |stream| it returns Ok
\* with current_position = p, having stepped only in the direction of p
\* (forward steps only if p was ahead, backward steps only if p was behind,
\* no steps if equal).
C21_GotoPositionContract ==
    LastCallWas("goto_position") =>
        LET pre == Unwrap(lastNav).pre
            ret == Unwrap(lastNav).ret
            p == Unwrap(lastNav).arg
        IN IF p >= Len(operations)
           THEN /\ ret = "Err"
                /\ current_position = pre.current_position
                /\ store = pre.store
           ELSE /\ ret = "Ok"
                /\ current_position = p
                /\ p > pre.current_position
                    => store \in StoresAfterForward(pre.store, pre.current_position, p)
                /\ p < pre.current_position
                    => store \in StoresAfterBackward(pre.store, pre.current_position, p)
                /\ p = pre.current_position => store = pre.store

\* goto_position went back two positions and changed the store
C21_Witness ==
    /\ LastCallWas("goto_position")
    /\ Unwrap(lastNav).ret = "Ok"
    /\ Unwrap(lastNav).arg + 2 = Unwrap(lastNav).pre.current_position
    /\ store # Unwrap(lastNav).pre.store

-----------------------------------------------------------------------------
(* Properties of goto_timestamp (SpecTimed) *)

\* The 0-based indices whose operation carries a timestamp
TimedIndices == {i \in 0..(Len(operations) - 1) : IsSome(operations[i + 1].timestamp)}

TimestampAt(i) == Unwrap(operations[i + 1].timestamp)

\* Index j is closer to t than index i: its timestamp is t, or lies strictly
\* between t and the timestamp of i in the order of the timestamps
Closer(j, i, t) ==
    /\ TimestampAt(i) # t
    /\ \/ TimestampAt(j) = t
       \/ cmp(TimestampAt(i), TimestampAt(j)) = 0 - 1 /\ cmp(TimestampAt(j), t) = 0 - 1
       \/ cmp(TimestampAt(i), TimestampAt(j)) = 1 /\ cmp(TimestampAt(j), t) = 1

\* C22: goto_timestamp(t) moves the cursor to an index whose operation
\* timestamp equals t if one exists and otherwise to the index whose
\* timestamp is nearest to t; no other index with a timestamp is closer to t
\* than the one chosen.
C22_GotoTimestampNearest ==
    (LastCallWas("goto_timestamp") /\ TimedIndices # {}) =>
        LET t == Unwrap(lastNav).arg
        IN /\ Unwrap(lastNav).ret = "Ok"
           /\ current_position \in TimedIndices
           /\ \A j \in TimedIndices : ~Closer(j, current_position, t)

-----------------------------------------------------------------------------
(* Properties of the cursor Pensieve::new builds (SpecWindow) *)

\* SnapshotManager::new(conn, operations, tx_zero_idx) has been called
CursorBuilt == norm.phase = "done"

\* C23: in every reachable state of a cursor built from normalize's output
\* (initial position = tx_zero_idx), for every stream including the empty
\* one, 0 <= current_position < |stream|.
C23_PositionWithinStream ==
    CursorBuilt => (0 <= current_position /\ current_position < Len(operations))

-----------------------------------------------------------------------------
(* Properties of generate_sql (SpecSql) *)

\* The "col = val" text of column i of an operation for the image im
Equation(op, im, i) == op.columns[i] \o " = " \o im[i]

\* The WHERE clause an image of two columns calls for: its non-NULL columns
\* in column order, none when both are NULL
WhereClause(op, im) ==
    IF im[1] # "NULL" /\ im[2] # "NULL"
    THEN " WHERE " \o Equation(op, im, 1) \o " AND " \o Equation(op, im, 2)
    ELSE IF im[1] # "NULL" THEN " WHERE " \o Equation(op, im, 1)
    ELSE IF im[2] # "NULL" THEN " WHERE " \o Equation(op, im, 2)
    ELSE ""

\* C24: generate_sql for Update and Delete puts in the WHERE clause exactly
\* the columns i with before[i] # "NULL", in column order, joined by " AND ",
\* and omits the WHERE clause entirely when every before value is NULL; for
\* Update the SET clause lists every column with its after value, including
\* columns excluded from WHERE.
C24_WhereAndSetClauses ==
    \A i \in 1..Len(calls) :
        LET op == calls[i].op IN
        /\ op.operation_type = "Delete" =>
                calls[i].sql = "DELETE FROM " \o op.table_name
                                \o WhereClause(op, Unwrap(op.before_values)) \o ";"
        /\ op.operation_type = "Update" =>
                calls[i].sql = "UPDATE " \o op.table_name \o " SET "
                                \o Equation(op, Unwrap(op.after_values), 1) \o ", "
                                \o Equation(op, Unwrap(op.after_values), 2)
                                \o WhereClause(op, Unwrap(op.before_values)) \o ";"

\* The statement of test_generate_update_sql's shape with a NULL in the before
\* image: the column is set but not compared
C24_Witness ==
    \E i \in 1..Len(calls) :
        /\ calls[i].op.operation_type = "Update"
        /\ Unwrap(calls[i].op.before_values) = <<"1", "NULL">>
        /\ Unwrap(calls[i].op.after_values) = <<"1", "'a'">>
        /\ calls[i].sql = "UPDATE users SET id = 1, name = 'a' WHERE id = 1;"

-----------------------------------------------------------------------------
(* Properties of parse_update on truncated images (SpecParser) *)

\* The value the @K=V line of column k carries in the lexicon
ValueOf(k) ==
    Unwrap(column_value_regex(CHOOSE l \in LogLines :
        IsSome(column_value_regex(l)) /\ Unwrap(column_value_regex(l)).col_num = k)).value

\* The image the @K=V lines after the statement on line o supply
SuppliedImage(ls, o) ==
    [k \in 1..Len(schema.columns) |->
        IF k \in SuppliedColumns(ls, o) THEN ValueOf(k) ELSE "NULL"]

\* The Update on line o has no "### SET" line among its image lines
WithoutSet(ls, o) ==
    /\ IsSome(update_regex(ls[o]))
    /\ \A j \in (o + 1)..BlockEnd(ls, o) : ~contains_set(ls[j])

\* The operations parsed from line o, pending or handed to the output
ParsedFrom(o) ==
    {operations[i] : i \in PlacesOf(o)}
    \cup {parser.pending_operations[j] :
            j \in {x \in 1..Len(parser.pending_lines) : parser.pending_lines[x] = o}}

\* C27: an Update whose image lines end (non-### line, next operation start,
\* or end of input) before any "### SET" marker is still emitted as an Update
\* whose before image holds the values read and whose after image is NULL in
\* every column.
C27_UpdateWithoutSet ==
    \A o \in 1..parser.next :
        WithoutSet(parser.lines, o) =>
            /\ o \in parser.parsed_at
            /\ \A op \in ParsedFrom(o) :
                /\ op.operation_type = "Update"
                /\ op.before_values = Some(SuppliedImage(parser.lines, o))
                /\ op.after_values = Some([k \in 1..Len(op.columns) |-> "NULL"])

\* An Update with one column line and no "### SET", cut off by the next
\* statement, was returned with that value before and NULL after
C27_Witness ==
    /\ Returned
    /\ \E o \in 1..Len(parser.lines) :
        /\ WithoutSet(parser.lines, o)
        /\ BlockEnd(parser.lines, o) < Len(parser.lines)
        /\ contains_statement(parser.lines[BlockEnd(parser.lines, o) + 1])
        /\ \E i \in PlacesOf(o) :
            /\ operations[i].before_values = Some(<<"1", "NULL">>)
            /\ operations[i].after_values = Some(<<"NULL", "NULL">>)

-----------------------------------------------------------------------------
(* Properties of the stamps parse_file gives (SpecParser) *)

\* The event headers of the file that stand before line o
HeadersBefore(ls, o) == {h \in 1..(o - 1) : ls[h] \in {HeaderLine, Header2Line}}

\* The header nearest before line o, if any
NearestHeader(ls, o) ==
    IF HeadersBefore(ls, o) = {} THEN None
    ELSE Some(ls[CHOOSE h \in HeadersBefore(ls, o) : \A g \in HeadersBefore(ls, o) : g <= h])

\* The date and time, and the end_log_pos, an event header shows
HeaderTimestamp(line) == IF line = HeaderLine THEN "251020 9:00:00" ELSE "251020 10:00:00"
HeaderPosition(line) == IF line = HeaderLine THEN 100 ELSE 200

\* C32: every emitted operation carries the timestamp and the end_log_pos of
\* the nearest event header that precedes its operation-start line in the log
\* (absent if no header preceded it); a later header never changes the stamp
\* of an operation already parsed, including operations still waiting in the
\* pending buffer.
C32_StampedByNearestHeader ==
    \A o \in 1..parser.next :
        \A op \in ParsedFrom(o) :
            LET header == NearestHeader(parser.lines, o)
            IN IF header = None
               THEN op.timestamp = None /\ op.position = None
               ELSE /\ op.timestamp = Some(HeaderTimestamp(Unwrap(header)))
                    /\ op.position = Some(HeaderPosition(Unwrap(header)))

\* An operation stamped by the first header waits in the pending buffer after
\* the second header was read
C32_Witness ==
    /\ parser.current_timestamp = Some("251020 10:00:00")
    /\ parser.current_position = Some(200)
    /\ \E j \in 1..Len(parser.pending_operations) :
        /\ parser.pending_operations[j].timestamp = Some("251020 9:00:00")
        /\ parser.pending_operations[j].position = Some(100)

-----------------------------------------------------------------------------
(* Properties of parse_file on failing reads and unknown tables (SpecReader) *)

\* C25: if reading a line of the change log fails with an I/O error at any
\* point after the file was opened, parse_file returns an error to its
\* caller; it never returns Ok with the operations collected before the
\* failure.
C25_ReadErrorSurfaces ==
    Returned => parser.failed_at = None

\* Line o is a statement on a table other than the one the store holds, for
\* which PRAGMA table_info has no rows
UnknownTable(ls, o) ==
    /\ StatementKind(ls[o]) # "none"
    /\ extract_table_name(
            Unwrap(update_regex(ls[o]) \o insert_regex(ls[o]) \o delete_regex(ls[o])))[2]
        # TableName

\* The statement line that follows line o with only lines of o's block between
FollowsAtOnce(ls, o, o2) == o2 = BlockEnd(ls, o) + 1 /\ o2 <= Len(ls) /\ contains_statement(ls[o2])

\* C26: an operation start naming a table whose schema probe returns no
\* columns produces no operation, and the parser consumes its following lines
\* only up to (not including) the next operation-start line, so an operation
\* on a known table that immediately follows is still parsed with its own
\* complete images.
C26_UnknownTableSkipped ==
    \A o \in 1..parser.next :
        (o <= Len(parser.lines) /\ UnknownTable(parser.lines, o)) =>
            /\ o \notin parser.parsed_at
            /\ o \notin Range(parser.operation_lines) \cup Range(parser.pending_lines)
            /\ \A o2 \in 1..parser.next :
                (/\ FollowsAtOnce(parser.lines, o, o2)
                 /\ ~UnknownTable(parser.lines, o2)
                 /\ parser.failed_at = None) =>
                    /\ o2 \in parser.parsed_at
                    /\ \A i \in PlacesOf(o2) :
                        /\ operations[i].operation_type = StatementKind(parser.lines[o2])
                        /\ operations[i].after_values
                            = Some(SuppliedImage(parser.lines, o2))

\* An unknown-table statement with a column line of its own was skipped and
\* the Insert that follows it was returned with the image its own lines supply
C26_Witness ==
    /\ Returned
    /\ \E o, o2 \in 1..Len(parser.lines) :
        /\ UnknownTable(parser.lines, o)
        /\ BlockEnd(parser.lines, o) > o
        /\ FollowsAtOnce(parser.lines, o, o2)
        /\ \E i \in PlacesOf(o2) :
            /\ operations[i].operation_type = "Insert"
            /\ operations[i].after_values = Some(<<"1", "'a'">>)

-----------------------------------------------------------------------------
(* Properties of BinlogTimestamp (SpecTimestamp) *)

AllDigits(chars) == chars # << >> /\ \A i \in 1..Len(chars) : is_digit(chars[i])

\* Exactly six decimal digits, one space, and three fields of decimal digits
\* with two colons between them
StrictShape(chars) ==
    /\ Len(chars) > 7
    /\ AllDigits(SubSeq(chars, 1, 6))
    /\ chars[7] = " "
    /\ \E i, j \in 9..(Len(chars) - 1) :
        /\ i < j
        /\ chars[i] = ":"
        /\ chars[j] = ":"
        /\ AllDigits(SubSeq(chars, 8, i - 1))
        /\ AllDigits(SubSeq(chars, i + 1, j - 1))
        /\ AllDigits(SubSeq(chars, j + 1, Len(chars)))

\* C29: BinlogTimestamp::parse accepts a string only if it is exactly six
\* decimal digits, one space, and HH:MM:SS with two colons, and rejects every
\* other string (missing or extra space, a date part that is not exactly 6
\* digits, sign characters, missing seconds); for every accepted string s,
\* to_binlog_format(parse(s)) = s.
C29_ParseStrictAndRoundTrip ==
    \A i \in 1..Len(calls) :
        calls[i].result.ok =>
            /\ StrictShape(calls[i].chars)
            /\ calls[i].formatted = Some(calls[i].text)

-----------------------------------------------------------------------------
(* Properties of normalize's frame (SpecFrame) *)

\* The 0-based indices of the operations that carry a timestamp parse accepts
\* and that lies within [T-H, T+H]
InsideWindow ==
    {i \in 0..(Len(operations) - 1) :
        LET ts == operations[i + 1].timestamp IN
        /\ IsSome(ts)
        /\ Unwrap(ts) \notin UnparsableTexts
        /\ ParsedTexts[Unwrap(ts)].value.datetime
                >= ParsedTexts[norm.snapshot_timestamp].value.datetime - window_hours * 3600
        /\ ParsedTexts[Unwrap(ts)].value.datetime
                <= ParsedTexts[norm.snapshot_timestamp].value.datetime + window_hours * 3600}

\* C30: normalize executes probes and statements only for operations whose
\* index is in the window: an operation whose timestamp is outside
\* [T-H, T+H], missing, or unparsable is never applied or inverted by
\* normalize, even when its index lies between two in-window indices.
C30_OnlyWindowTouched ==
    norm.touched \subseteq InsideWindow

\* normalize returned having probed the first and the last of five operations
\* and none of the three between them: one without timestamp, one stamped
\* outside the window and one with a timestamp that does not parse
C30_Witness ==
    /\ norm.phase = "done"
    /\ Len(operations) = 5
    /\ norm.touched = {0, 4}
    /\ norm.applied_forward + norm.applied_inverted > 0
    /\ {operations[i].timestamp : i \in 2..4}
        = {None, Some("251021 2:00:00"), Some("251020 25:00:00")}

RECURSIVE Ascending(_)
\* The members of a set of numbers, smallest first
Ascending(set) ==
    IF set = {} THEN << >>
    ELSE LET least == CHOOSE x \in set : \A y \in set : x <= y
         IN <<least>> \o Ascending(set \ {least})

\* The calls normalize owes the window: each index up to tx_zero_idx with its
\* operation, smallest first, then each later index with the inverse of its
\* operation, largest first
ProbesOwed ==
    LET upto == Ascending({i \in InsideWindow : i <= norm.tx_zero_idx})
        after == Ascending({i \in InsideWindow : i > norm.tx_zero_idx})
    IN [k \in 1..Len(upto) |-> [idx |-> upto[k], op |-> operations[upto[k] + 1]]]
       \o [k \in 1..Len(after) |->
                [idx |-> after[Len(after) + 1 - k],
                 op |-> invert(operations[after[Len(after) + 1 - k] + 1])]]

\* C31: normalize probes every in-window operation exactly once and in this
\* order: first every window index i <= tx_zero_idx in ascending stream order
\* in forward orientation, then every window index i > tx_zero_idx in
\* descending stream order in inverted orientation; no inverted operation is
\* attempted before the last forward one.
C31_ProbeOrder ==
    /\ norm.phase \in {"forward", "reverse", "done"} =>
            /\ Len(norm.probes) <= Len(ProbesOwed)
            /\ norm.probes = SubSeq(ProbesOwed, 1, Len(norm.probes))
    /\ (norm.phase = "done" /\ InsideWindow # {}) => norm.probes = ProbesOwed
    /\ norm.phase \in {"start", "return", "error"} => norm.probes = << >>

\* normalize returned after three forward calls, the last at tx_zero_idx, and
\* two inverted ones, the later operation first
C31_Witness ==
    /\ norm.phase = "done"
    /\ Len(norm.probes) = 5
    /\ norm.probes[3].idx = norm.tx_zero_idx
    /\ norm.probes[4].idx > norm.probes[5].idx
    /\ norm.probes[4].op.operation_type # operations[norm.probes[4].idx + 1].operation_type

-----------------------------------------------------------------------------
(* Properties of the cursor's counted walks and of failing applies          *)

\* C34: step_forward_by(n) returns min(n, |stream|-1-current_position) and
\* step_backward_by(n) returns min(n, current_position), and in the absence of
\* store errors the cursor's position changes by exactly the returned count
\* in the corresponding direction.
C34_StepsTaken ==
    /\ (LastCallWas("step_forward_by") /\ ~Unwrap(lastNav).err) =>
        LET pre == Unwrap(lastNav).pre
        IN /\ Unwrap(lastNav).ret
                = Min(Unwrap(lastNav).arg, Len(operations) - 1 - pre.current_position)
           /\ current_position = pre.current_position + Unwrap(lastNav).ret
    /\ (LastCallWas("step_backward_by") /\ ~Unwrap(lastNav).err) =>
        LET pre == Unwrap(lastNav).pre
        IN /\ Unwrap(lastNav).ret = Min(Unwrap(lastNav).arg, pre.current_position)
           /\ current_position = pre.current_position - Unwrap(lastNav).ret

\* step_forward_by(3) was stopped by the end of the stream after two steps
C34_Witness ==
    /\ LastCallWas("step_forward_by")
    /\ ~Unwrap(lastNav).err
    /\ Unwrap(lastNav).arg = 3
    /\ Unwrap(lastNav).ret = 2
    /\ current_position = Unwrap(lastNav).pre.current_position + 2

\* The conditional apply of op on the store of cursor c fails
ApplyFails(c, op) ==
    \A out \in apply_operation_conditionally(c.store, schema, op) : ~out.ok

\* The direction of the latest call: 1 forward, -1 backward
Direction ==
    LET nav == Unwrap(lastNav)
    IN  IF nav.call \in {"step_forward", "step_forward_by"} THEN 1
        ELSE IF nav.call \in {"step_backward", "step_backward_by"} THEN -1
        ELSE IF nav.arg > nav.pre.current_position THEN 1 ELSE -1

\* C39: if the conditional apply inside step_forward or step_backward fails,
\* the call returns the error and current_position is unchanged; inside
\* step_forward_by, step_backward_by and goto_position the position after a
\* failure equals the starting position plus or minus the number of single
\* steps that completed before the failing one.
C39_PositionAfterFailure ==
    /\ (/\ LastCallWas("step_forward")
        /\ Unwrap(lastNav).pre.current_position + 1 < Len(operations)
        /\ ApplyFails(Unwrap(lastNav).pre,
                      operations[Unwrap(lastNav).pre.current_position + 2])) =>
            /\ Unwrap(lastNav).err
            /\ current_position = Unwrap(lastNav).pre.current_position
    /\ (/\ LastCallWas("step_backward")
        /\ Unwrap(lastNav).pre.current_position > 0
        /\ ApplyFails(Unwrap(lastNav).pre,
                      invert(operations[Unwrap(lastNav).pre.current_position + 1]))) =>
            /\ Unwrap(lastNav).err
            /\ current_position = Unwrap(lastNav).pre.current_position
    /\ (/\ IsSome(lastNav)
        /\ Unwrap(lastNav).call \in {"step_forward_by", "step_backward_by", "goto_position"}
        /\ Unwrap(lastNav).err) =>
            /\ current_position
                = Unwrap(lastNav).pre.current_position + Direction * Unwrap(lastNav).steps
            /\ IF Direction = 1
               THEN ApplyFails(Cursor, operations[current_position + 2])
               ELSE ApplyFails(Cursor, invert(operations[current_position + 1]))

\* goto_position failed on its second single step forward
C39_Witness ==
    /\ LastCallWas("goto_position")
    /\ Unwrap(lastNav).err
    /\ Unwrap(lastNav).steps = 1
    /\ current_position = Unwrap(lastNav).pre.current_position + 1
    /\ Unwrap(lastNav).arg = Unwrap(lastNav).pre.current_position + 2

-----------------------------------------------------------------------------
(* Properties of normalize on failing applies (SpecAbort) *)

\* C36: if probing or executing any window operation fails during normalize,
\* normalize returns that error immediately: no later window operation
\* (forward or inverted) is attempted and no store or tx_zero_idx is handed
\* to a cursor.
C36_FailureAborts ==
    \A k \in 1..Len(norm.results) :
        ~norm.results[k] =>
            /\ k = Len(norm.results)
            /\ norm.phase = "error"

\* The second call failed while window operations were still to be applied,
\* forward and inverted
C36_Witness ==
    /\ norm.phase = "error"
    /\ Len(norm.results) = 2
    /\ ~norm.results[2]
    /\ Len(norm.window_ops) >= 4
    /\ norm.probes[2].idx < norm.tx_zero_idx

-----------------------------------------------------------------------------
(* Properties of the statements the applier executes (SpecApplier) *)

\* The copies of row r in the table st
Copies(st, r) == IF r \in DOMAIN st THEN st[r] ELSE 0

\* C37: whenever apply_operation_conditionally executes an Update or Delete,
\* every row it changes or removes was equal to the operation's before image
\* in every column; rows that agree with the before image only on its
\* non-NULL columns, and duplicate rows beyond the single identified one, are
\* left untouched.
C37_OnlyTheIdentifiedRow ==
    \A i \in 1..Len(calls) :
        LET c == calls[i]
        IN (c.op.operation_type \in {"Update", "Delete"} /\ c.applied) =>
            \A r \in DOMAIN c.before :
                Copies(c.before, r) - Copies(c.after, r)
                    <= (IF r = RowOf(Unwrap(c.op.before_values), schema) THEN 1 ELSE 0)

\* C38: apply_operation_conditionally never executes an UPDATE or DELETE
\* statement that has no WHERE clause: an Update or Delete whose before image
\* is NULL in every column is always skipped, in any store state.
C38_NoStatementWithoutWhere ==
    \A i \in 1..Len(calls) :
        LET c == calls[i]
        IN /\ IsSome(c.executed) =>
                (Unwrap(c.executed).verb \in {"UPDATE", "DELETE"}
                    => Unwrap(c.executed).where_parts # << >>)
           /\ (/\ c.op.operation_type \in {"Update", "Delete"}
               /\ \A k \in 1..Len(Unwrap(c.op.before_values)) :
                    Unwrap(c.op.before_values)[k] = "NULL") =>
                (c.ok /\ ~c.applied /\ c.executed = None /\ c.after = c.before)

\* An Update whose before image is NULL throughout met a store that holds
\* rows, among them the row of NULLs, and was skipped
C38_Witness ==
    \E i \in 1..Len(calls) :
        /\ calls[i].op.operation_type = "Update"
        /\ Unwrap(calls[i].op.before_values) = <<"NULL", "NULL">>
        /\ <<NullValue, NullValue>> \in DOMAIN calls[i].before
        /\ BagSize(calls[i].before) = 2
        /\ calls[i].executed = None

-----------------------------------------------------------------------------
(* Properties of parse_file at the end of the input (SpecParser) *)

\* Line o stands in a transaction that is still open when the input ends: a
\* BEGIN stands before it and no COMMIT or ROLLBACK follows that BEGIN
OpenAtEnd(ls, o) ==
    \E b \in 1..(o - 1) :
        /\ begin_regex(ls[b])
        /\ \A j \in (b + 1)..Len(ls) : ~(commit_regex(ls[j]) \/ rollback_regex(ls[j]))

\* C40: operations buffered in a transaction that is still open when the
\* input ends (a BEGIN with no later COMMIT or ROLLBACK) are not in the stream
\* returned by parse_file, and parse_file still returns Ok with every earlier
\* committed operation.
C40_OpenTransactionDropped ==
    Returned =>
        LET ls == parser.lines
        IN /\ parser.failed_at = None
           /\ \A o \in 1..Len(ls) :
                OpenAtEnd(ls, o) => o \notin Range(parser.operation_lines)
           /\ \A o \in 1..Len(ls) :
                (contains_statement(ls[o]) /\ \E b \in 1..Len(ls) : CommittedIn(ls, o, b))
                    => \E i \in 1..Len(operations) :
                        /\ parser.operation_lines[i] = o
                        /\ operations[i].operation_type = StatementKind(ls[o])

\* A transaction was committed, and a later one that holds a parsed operation
\* was still open when the input ended
C40_Witness ==
    /\ Returned
    /\ operations # << >>
    /\ \E o \in parser.parsed_at :
        /\ OpenAtEnd(parser.lines, o)
        /\ o \in Range(parser.pending_lines)
        /\ \E o1 \in 1..(o - 1), b \in 1..(o - 1) :
            /\ contains_statement(parser.lines[o1])
            /\ CommittedIn(parser.lines, o1, b)

====
